---- MODULE Spec2Model ----
(***************************************************************************)
(* A model of package query (src/query.go): lazy, pull-based queries over  *)
(* in-memory slices.  A Query holds a factory (Iterate) of fresh iterator  *)
(* closures; every operator wraps the upstream factory.  The model keeps   *)
(* the closures' captured variables as explicit iterator state and the     *)
(* callbacks as named functions over small integers.                       *)
(***************************************************************************)
EXTENDS Integers, Sequences, FiniteSets, TLC

VARIABLES a, b, qs, its, res

vars == <<a, b, qs, its, res>>

(***************************************************************************)
(* Bounds of the model.                                                    *)
(***************************************************************************)
MaxElem == 2
MaxLen == 3
MaxFns == 2
MaxJoin == 2
MaxSrc == 3
MaxStages == 2
MaxPast == 1

Elems == 0..MaxElem

\* The nil interface value: what a named result (elem T) holds when it was
\* never assigned.
Nil == -1

RECURSIVE SeqsUpTo(_, _)
SeqsUpTo(S, n) ==
  IF n = 0 THEN {<<>>}
  ELSE LET shorter == SeqsUpTo(S, n - 1)
       IN shorter \cup {Append(s, x) : s \in {t \in shorter : Len(t) = n - 1}, x \in S}

Slices == SeqsUpTo(Elems, MaxLen)

(***************************************************************************)
(* Callbacks.  The callers' functions are named; each Apply operator is    *)
(* the body of the named Go function.                                      *)
(***************************************************************************)
Preds == {"truthTrue", "truthFalse", "even", "positive"}

ApplyPred(name, e) ==
  CASE name = "truthTrue" -> TRUE
    [] name = "truthFalse" -> FALSE
    [] name = "even" -> e % 2 = 0
    [] name = "positive" -> e > 0

Mappers == {"inc", "double"}

ApplyMap(name, e) ==
  CASE name = "inc" -> e + 1
    [] name = "double" -> 2 * e

RECURSIVE UpTo(_)
UpTo(e) == IF e <= 0 THEN <<>> ELSE Append(UpTo(e - 1), e - 1)

Expanders == {"null", "copy", "duplicate", "upto"}

ApplyExpand(name, e) ==
  CASE name = "null" -> <<>>
    [] name = "copy" -> <<e>>
    [] name = "duplicate" -> <<e, e>>
    [] name = "upto" -> UpTo(e)

KeySels == {"keySel", "mod2"}

ApplyKey(name, e) ==
  CASE name = "keySel" -> e
    [] name = "mod2" -> e % 2

ResultSels == {"outer", "inner", "pair"}

ApplyResult(name, o, i) ==
  CASE name = "outer" -> o
    [] name = "inner" -> i
    [] name = "pair" -> 10 * o + i

Cmps == {"less", "greater", "lessMod2", "never", "lessEq"}

ApplyCmp(name, e, f) ==
  CASE name = "less" -> e < f
    [] name = "greater" -> e > f
    [] name = "lessMod2" -> e % 2 < f % 2
    [] name = "never" -> FALSE
    [] name = "lessEq" -> e <= f

\* One event per callback invocation and per pull on a source iterator.
Call(name, args) == <<"call", name, args>>
Pulled(src, i) == <<"pull", src, <<i>>>>

(***************************************************************************)
(* Queries.  A Query is a source slice (by name: slices are shared by      *)
(* reference) and the chain of stages wrapped around it.                   *)
(***************************************************************************)
Mem(name) == IF name = "a" THEN a ELSE b

NoQuery == [src |-> "a", st |-> <<>>]

From(name) == [src |-> name, st |-> <<>>]

Stage(op, n, f, inner) == [op |-> op, n |-> n, f |-> f, inner |-> inner]

Where(q, f) == [q EXCEPT !.st = Append(@, Stage("where", 0, f, NoQuery))]
Skip(q, n) == [q EXCEPT !.st = Append(@, Stage("skip", n, <<>>, NoQuery))]
Take(q, n) == [q EXCEPT !.st = Append(@, Stage("take", n, <<>>, NoQuery))]
MapTo(q, f) == [q EXCEPT !.st = Append(@, Stage("mapTo", 0, <<f>>, NoQuery))]
Expand(q, f) == [q EXCEPT !.st = Append(@, Stage("expand", 0, <<f>>, NoQuery))]
Sort(q, f) == [q EXCEPT !.st = Append(@, Stage("sort", 0, f, NoQuery))]
Join(q, inner, outKeySel, innKeySel, resultSel) ==
  [q EXCEPT !.st = Append(@, Stage("join", 0, <<outKeySel, innKeySel, resultSel>>, inner))]

\* The variables an iterator closure captures, one record per stage.
NoState == [n |-> 0, i |-> 0, len |-> 0, outer |-> Nil, inner |-> <<>>,
            lut |-> <<>>, a |-> <<>>]

\* The result of one call of an Iterator: (elem, ok), the iterator's state
\* afterwards, the events so far, and whether the call panicked.
R(elem, ok, it, ev, panic) ==
  [elem |-> elem, ok |-> ok, it |-> it, ev |-> ev, panic |-> panic]

\* A faulty variant of fromNext: elem = a[len(a)-1-i]: the slice is read from its end.
fromNextBackwards(it, ev) ==
  IF it.i < Len(Mem(it.q.src))
  THEN R(Mem(it.q.src)[Len(Mem(it.q.src)) - it.i], TRUE, [it EXCEPT !.i = @ + 1],
         Append(ev, Pulled(it.q.src, it.i)), FALSE)
  ELSE R(Nil, FALSE, it, Append(ev, Pulled(it.q.src, it.i)), FALSE)

\* A faulty variant of fromNext: i = 0 once the slice is exhausted: the next call
\* starts again.
fromNextWraps(it, ev) ==
  IF it.i < Len(Mem(it.q.src))
  THEN R(Mem(it.q.src)[it.i + 1], TRUE, [it EXCEPT !.i = @ + 1],
         Append(ev, Pulled(it.q.src, it.i)), FALSE)
  ELSE R(Nil, FALSE, [it EXCEPT !.i = 0], Append(ev, Pulled(it.q.src, it.i)), FALSE)

\* from: the closure over i.
fromNext(it, ev) ==
  IF it.i < Len(Mem(it.q.src))
  THEN R(Mem(it.q.src)[it.i + 1], TRUE, [it EXCEPT !.i = @ + 1],
         Append(ev, Pulled(it.q.src, it.i)), FALSE)
  ELSE R(Nil, FALSE, it, Append(ev, Pulled(it.q.src, it.i)), FALSE)

\* A faulty variant of allPreds: has = f[k](elem): the last predicate alone decides.
RECURSIVE allPredsLast(_, _, _, _, _)
allPredsLast(f, k, elem, has, ev) ==
  IF k > Len(f) THEN [has |-> has, ev |-> ev]
  ELSE allPredsLast(f, k + 1, elem, ApplyPred(f[k], elem),
                    Append(ev, Call(f[k], <<elem>>)))

\* A faulty variant of allPreds: has = f[k](elem) && has: every predicate is
\* invoked, also after one has returned false.
RECURSIVE allPredsEager(_, _, _, _, _)
allPredsEager(f, k, elem, has, ev) ==
  IF k > Len(f) THEN [has |-> has, ev |-> ev]
  ELSE allPredsEager(f, k + 1, elem, ApplyPred(f[k], elem) /\ has,
                     Append(ev, Call(f[k], <<elem>>)))

\* has := true; for k: has = has && f[k](elem)  (&& does not call f[k] once
\* has is false).
RECURSIVE allPreds(_, _, _, _, _)
allPreds(f, k, elem, has, ev) ==
  IF k > Len(f) THEN [has |-> has, ev |-> ev]
  ELSE IF has
       THEN allPreds(f, k + 1, elem, ApplyPred(f[k], elem),
                     Append(ev, Call(f[k], <<elem>>)))
       ELSE allPreds(f, k + 1, elem, FALSE, ev)

RECURSIVE NextAt(_, _, _)
RECURSIVE whereNext(_, _, _)
RECURSIVE skipNext(_, _, _)
RECURSIVE expandNext(_, _, _)
RECURSIVE joinAdvance(_, _, _)

\* where: if has { return } with the element r and the predicates' verdict p.
whereHas(p, r, k) ==
  IF p.has THEN R(r.elem, TRUE, r.it, p.ev, FALSE) ELSE whereNext(r.it, k, p.ev)

\* where: the loop body for the upstream result r.
whereTest(r, k) ==
  IF r.panic \/ ~r.ok THEN r
  ELSE whereHas(allPreds(r.it.q.st[k].f, 1, r.elem, TRUE, r.ev), r, k)

\* where: for elem, ok = next(); ok; elem, ok = next() { ... }
whereNext(it, k, ev) == whereTest(NextAt(it, k - 1, ev), k)

\* skip: _, ok = next(); if !ok { return }; n--
skipDrop(r, k) ==
  IF r.panic \/ ~r.ok THEN R(Nil, FALSE, r.it, r.ev, r.panic)
  ELSE skipNext([r.it EXCEPT !.s[k].n = @ - 1], k, r.ev)

\* A faulty variant of skipNext: a negative n skips nothing.
skipNextNoClamp(it, k, ev) ==
  IF it.s[k].n > 0 THEN skipDrop(NextAt(it, k - 1, ev), k)
  ELSE NextAt(it, k - 1, ev)

\* skip: the closure over next and n.
skipNext(it, k, ev) ==
  IF it.s[k].n < 0 THEN R(Nil, FALSE, it, ev, FALSE)
  ELSE IF it.s[k].n > 0 THEN skipDrop(NextAt(it, k - 1, ev), k)
  ELSE NextAt(it, k - 1, ev)

\* A faulty variant of takeNext: if n < 0 { return }: one element too many.
takeNextOffByOne(it, k, ev) ==
  IF it.s[k].n < 0 THEN R(Nil, FALSE, it, ev, FALSE)
  ELSE NextAt([it EXCEPT !.s[k].n = @ - 1], k - 1, ev)

\* A faulty variant of takeNext: n is never decremented.
takeNextKeepsCount(it, k, ev) ==
  IF it.s[k].n <= 0 THEN R(Nil, FALSE, it, ev, FALSE)
  ELSE NextAt(it, k - 1, ev)

\* A faulty variant of takeNext: elem, ok = next() comes before the test of n: an
\* exhausted take still pulls, and drops what it gets.
takeNextEager(it, k, ev) ==
  IF it.s[k].n <= 0
  THEN R(Nil, FALSE, NextAt(it, k - 1, ev).it, NextAt(it, k - 1, ev).ev, FALSE)
  ELSE NextAt([it EXCEPT !.s[k].n = @ - 1], k - 1, ev)

\* take: the closure over next and n.
takeNext(it, k, ev) ==
  IF it.s[k].n <= 0 THEN R(Nil, FALSE, it, ev, FALSE)
  ELSE NextAt([it EXCEPT !.s[k].n = @ - 1], k - 1, ev)

\* A faulty variant of mapToApply: return elem, ok: f is not applied.
mapToApplySkipped(r, f) == r

\* A faulty variant of mapToApply: return f(elem), ok without the test of ok: f is
\* invoked with the nil element of an exhausted upstream too.
mapToApplyAlways(r, f) ==
  IF r.panic THEN r
  ELSE R(IF r.ok THEN ApplyMap(f, r.elem) ELSE Nil, r.ok, r.it,
         Append(r.ev, Call(f, <<r.elem>>)), FALSE)

\* mapTo: if ok { return f(elem.(T)), ok }
mapToApply(r, f) ==
  IF r.panic \/ ~r.ok THEN r
  ELSE R(ApplyMap(f, r.elem), TRUE, r.it, Append(r.ev, Call(f, <<r.elem>>)), FALSE)

mapToNext(it, k, ev) == mapToApply(NextAt(it, k - 1, ev), it.q.st[k].f[1])

\* expand: if s.i < s.len { elem = s.inner[s.i]; s.i++; return elem, true }
expandEmit(it, k, ev) ==
  IF it.s[k].i < it.s[k].len
  THEN R(it.s[k].inner[it.s[k].i + 1], TRUE, [it EXCEPT !.s[k].i = @ + 1], ev, FALSE)
  ELSE expandNext(it, k, ev)

\* A faulty variant of expandInner: an empty expansion ends the iteration.
expandInnerStops(it, k, inner, ev) ==
  IF inner = <<>> THEN R(Nil, FALSE, it, ev, FALSE)
  ELSE expandEmit([it EXCEPT !.s[k].inner = inner, !.s[k].len = Len(inner), !.s[k].i = 0],
                  k, ev)

\* expand: s.inner = f(s.outer); s.len = len(s.inner); s.i = 0
expandInner(it, k, inner, ev) ==
  expandEmit([it EXCEPT !.s[k].inner = inner, !.s[k].len = Len(inner), !.s[k].i = 0],
             k, ev)

\* A faulty variant of expandOuter: s.len = len(f(s.outer)) next to
\* s.inner = f(s.outer): f is invoked twice for the element.
expandOuterTwice(r, k, f) ==
  IF r.panic \/ ~r.ok
  THEN R(Nil, FALSE, [r.it EXCEPT !.s[k].outer = r.elem], r.ev, r.panic)
  ELSE expandInner([r.it EXCEPT !.s[k].outer = r.elem], k, ApplyExpand(f, r.elem),
                   r.ev \o <<Call(f, <<r.elem>>), Call(f, <<r.elem>>)>>)

\* expand: s.outer, ok = next(); if !ok { return }
expandOuter(r, k, f) ==
  IF r.panic \/ ~r.ok
  THEN R(Nil, FALSE, [r.it EXCEPT !.s[k].outer = r.elem], r.ev, r.panic)
  ELSE expandInner([r.it EXCEPT !.s[k].outer = r.elem], k, ApplyExpand(f, r.elem),
                   Append(r.ev, Call(f, <<r.elem>>)))

\* expand: the closure over next and s (expState).
expandNext(it, k, ev) ==
  IF it.s[k].i >= it.s[k].len
  THEN expandOuter(NextAt(it, k - 1, ev), k, it.q.st[k].f[1])
  ELSE expandEmit(it, k, ev)

\* join: elem = resultSel(s.outer, s.inner[s.i]); s.i++; return elem, true
joinEmit(it, k, ev) ==
  R(ApplyResult(it.q.st[k].f[3], it.s[k].outer, it.s[k].inner[it.s[k].i + 1]), TRUE,
    [it EXCEPT !.s[k].i = @ + 1],
    Append(ev, Call(it.q.st[k].f[3], <<it.s[k].outer, it.s[k].inner[it.s[k].i + 1]>>)),
    FALSE)

\* join: s.inner, has = lut[key]; s.len = len(s.inner); s.i = 0
joinLookup(it, k, key, ev) ==
  IF key \in DOMAIN it.s[k].lut
  THEN joinEmit([it EXCEPT !.s[k].inner = it.s[k].lut[key],
                           !.s[k].len = Len(it.s[k].lut[key]), !.s[k].i = 0], k, ev)
  ELSE joinAdvance([it EXCEPT !.s[k].inner = <<>>, !.s[k].len = 0, !.s[k].i = 0], k, ev)

\* join: s.outer, ok = next(); if !ok { return }
joinOuter(r, k, outKeySel) ==
  IF r.panic \/ ~r.ok
  THEN R(Nil, FALSE, [r.it EXCEPT !.s[k].outer = r.elem], r.ev, r.panic)
  ELSE joinLookup([r.it EXCEPT !.s[k].outer = r.elem], k, ApplyKey(outKeySel, r.elem),
                  Append(r.ev, Call(outKeySel, <<r.elem>>)))

\* join: for !has { ... }
joinAdvance(it, k, ev) == joinOuter(NextAt(it, k - 1, ev), k, it.q.st[k].f[1])

\* join: the closure over next, lut and s (joinState).
joinNext(it, k, ev) ==
  IF it.s[k].i >= it.s[k].len THEN joinAdvance(it, k, ev) ELSE joinEmit(it, k, ev)

\* A faulty variant of sortNext: i++ comes before elem = a[i]: the first element of
\* the sorted slice is passed over.
sortNextOffByOne(it, k, ev) ==
  IF it.s[k].i + 1 < Len(it.s[k].a)
  THEN R(it.s[k].a[it.s[k].i + 2], TRUE, [it EXCEPT !.s[k].i = @ + 1], ev, FALSE)
  ELSE R(Nil, FALSE, it, ev, FALSE)

\* sortBy: the closure over the sorted slice a and i.
sortNext(it, k, ev) ==
  IF it.s[k].i < Len(it.s[k].a)
  THEN R(it.s[k].a[it.s[k].i + 1], TRUE, [it EXCEPT !.s[k].i = @ + 1], ev, FALSE)
  ELSE R(Nil, FALSE, it, ev, FALSE)

\* One call of the iterator of stage k of it.q (stage 0 is the source).
NextAt(it, k, ev) ==
  IF k = 0 THEN fromNext(it, ev)
  ELSE CASE it.q.st[k].op = "where" -> whereNext(it, k, ev)
         [] it.q.st[k].op = "skip" -> skipNext(it, k, ev)
         [] it.q.st[k].op = "take" -> takeNext(it, k, ev)
         [] it.q.st[k].op = "mapTo" -> mapToNext(it, k, ev)
         [] it.q.st[k].op = "expand" -> expandNext(it, k, ev)
         [] it.q.st[k].op = "join" -> joinNext(it, k, ev)
         [] it.q.st[k].op = "sort" -> sortNext(it, k, ev)

\* for elem, ok := next(); ok; elem, ok = next() { a = append(a, elem) }
RECURSIVE drainAt(_, _, _, _)
drainGot(r, k, acc) ==
  IF r.panic \/ ~r.ok THEN [val |-> acc, it |-> r.it, ev |-> r.ev, panic |-> r.panic]
  ELSE drainAt(r.it, k, Append(acc, r.elem), r.ev)

drainAt(it, k, acc, ev) == drainGot(NextAt(it, k, ev), k, acc)

(***************************************************************************)
(* Sort.  sorter.Less walks the chain of less functions; sort.Stable on a  *)
(* slice shorter than its block size of 20 is one insertion sort.          *)
(***************************************************************************)
\* A faulty variant of Less: the loop runs over all the less functions, k <
\* len(s.less): the last one is asked in both directions like the others.
RECURSIVE LessSymmetric(_, _, _, _, _)
LessSymmetric(less, k, x, y, ev) ==
  IF k <= Len(less)
  THEN IF ApplyCmp(less[k], x, y)
       THEN [val |-> TRUE, ev |-> Append(ev, Call(less[k], <<x, y>>)), panic |-> FALSE]
       ELSE IF ApplyCmp(less[k], y, x)
            THEN [val |-> FALSE,
                  ev |-> ev \o <<Call(less[k], <<x, y>>), Call(less[k], <<y, x>>)>>,
                  panic |-> FALSE]
            ELSE LessSymmetric(less, k + 1, x, y,
                               ev \o <<Call(less[k], <<x, y>>), Call(less[k], <<y, x>>)>>)
  ELSE [val |-> FALSE, ev |-> ev, panic |-> FALSE]

RECURSIVE Less(_, _, _, _, _)
Less(less, k, x, y, ev) ==
  IF k < Len(less)
  THEN IF ApplyCmp(less[k], x, y)
       THEN [val |-> TRUE, ev |-> Append(ev, Call(less[k], <<x, y>>)), panic |-> FALSE]
       ELSE IF ApplyCmp(less[k], y, x)
            THEN [val |-> FALSE,
                  ev |-> ev \o <<Call(less[k], <<x, y>>), Call(less[k], <<y, x>>)>>,
                  panic |-> FALSE]
            ELSE Less(less, k + 1, x, y,
                      ev \o <<Call(less[k], <<x, y>>), Call(less[k], <<y, x>>)>>)
  ELSE IF k > Len(less)
       THEN [val |-> FALSE, ev |-> ev, panic |-> TRUE]
       ELSE [val |-> ApplyCmp(less[k], x, y),
             ev |-> Append(ev, Call(less[k], <<x, y>>)), panic |-> FALSE]

Swap(t, i, j) == [t EXCEPT ![i] = t[j], ![j] = t[i]]

\* A faulty variant of insertOne: the loop runs while !data.Less(j-1, j): equal
\* elements are swapped too.
RECURSIVE insertOneNotGreater(_, _, _, _)
insertNotLess(l, t, less, j) ==
  IF l.panic THEN [t |-> t, ev |-> l.ev, panic |-> TRUE]
  ELSE IF ~l.val THEN insertOneNotGreater(Swap(t, j, j - 1), less, j - 1, l.ev)
  ELSE [t |-> t, ev |-> l.ev, panic |-> FALSE]

insertOneNotGreater(t, less, j, ev) ==
  IF j <= 1 THEN [t |-> t, ev |-> ev, panic |-> FALSE]
  ELSE insertNotLess(Less(less, 1, t[j - 1], t[j], ev), t, less, j)

\* for j := i; j > a && data.Less(j, j-1); j-- { data.Swap(j, j-1) }
RECURSIVE insertOne(_, _, _, _)
insertLess(l, t, less, j) ==
  IF l.panic THEN [t |-> t, ev |-> l.ev, panic |-> TRUE]
  ELSE IF l.val THEN insertOne(Swap(t, j, j - 1), less, j - 1, l.ev)
  ELSE [t |-> t, ev |-> l.ev, panic |-> FALSE]

insertOne(t, less, j, ev) ==
  IF j <= 1 THEN [t |-> t, ev |-> ev, panic |-> FALSE]
  ELSE insertLess(Less(less, 1, t[j], t[j - 1], ev), t, less, j)

\* for i := a + 1; i < b; i++ { ... }
RECURSIVE insertionSort(_, _, _, _)
insertionStep(r, less, i) ==
  IF r.panic THEN r ELSE insertionSort(r.t, less, i + 1, r.ev)

insertionSort(t, less, i, ev) ==
  IF i > Len(t) THEN [t |-> t, ev |-> ev, panic |-> FALSE]
  ELSE insertionStep(insertOne(t, less, i, ev), less, i)

\* A faulty variant of bySort: the insertion loop starts one element late, at a + 2.
bySortLate(f, t, ev) == insertionSort(t, f, 3, ev)

\* by(f).Sort(t)
bySort(f, t, ev) == insertionSort(t, f, 2, ev)

\* makeLut: result[key] = append(result[key], elem) for every element of it.
RECURSIVE makeLut(_, _, _, _)
\* A faulty variant of makeLutGot: result[key] = []T{elem}: a group keeps its last
\* element only.
makeLutGotLast(r, f, result) ==
  IF r.panic \/ ~r.ok THEN [lut |-> result, ev |-> r.ev, panic |-> r.panic]
  ELSE makeLut(r.it, f,
               IF ApplyKey(f, r.elem) \in DOMAIN result
               THEN [result EXCEPT ![ApplyKey(f, r.elem)] = <<r.elem>>]
               ELSE (ApplyKey(f, r.elem) :> <<r.elem>>) @@ result,
               Append(r.ev, Call(f, <<r.elem>>)))

makeLutGot(r, f, result) ==
  IF r.panic \/ ~r.ok THEN [lut |-> result, ev |-> r.ev, panic |-> r.panic]
  ELSE makeLut(r.it, f,
               IF ApplyKey(f, r.elem) \in DOMAIN result
               THEN [result EXCEPT ![ApplyKey(f, r.elem)] = Append(@, r.elem)]
               ELSE (ApplyKey(f, r.elem) :> <<r.elem>>) @@ result,
               Append(r.ev, Call(f, <<r.elem>>)))

makeLut(it, f, result, ev) == makeLutGot(NextAt(it, Len(it.q.st), ev), f, result)

\* The closure of a stage: the upstream closure up.it and the stage's own
\* captured variables s.
Closure(up, s, ev, panic) ==
  [it |-> [up.it EXCEPT !.s = Append(@, s)], ev |-> ev, panic |-> panic]

\* sortBy: a := ToSlice(q); by(f).Sort(a); i := 0
sortBySorted(sorted, d) == Closure(d, [NoState EXCEPT !.a = sorted.t], sorted.ev, sorted.panic)

\* A faulty variant of sortByDrained: the sorted buffer is kept in the Query: an
\* iterator created while another one is live reads that one's buffer and
\* neither drains upstream nor sorts.
sortByDrainedShared(d, f) ==
  IF d.panic THEN [it |-> d.it, ev |-> d.ev, panic |-> TRUE]
  ELSE IF \E i \in DOMAIN its : its[i].live
       THEN Closure(d, [NoState EXCEPT
                          !.a = its[CHOOSE i \in DOMAIN its : its[i].live].it.s[1].a],
                    <<>>, FALSE)
       ELSE sortBySorted(bySort(f, d.val, d.ev), d)

sortByDrained(d, f) ==
  IF d.panic THEN [it |-> d.it, ev |-> d.ev, panic |-> TRUE]
  ELSE sortBySorted(bySort(f, d.val, d.ev), d)

\* join: lut := makeLut(inner.Iterate(), innKeySel); s := joinState{}
joinLut(m, up) == Closure(up, [NoState EXCEPT !.lut = m.lut], m.ev, m.panic)

\* A faulty variant of joinInner: lut := make(lut): inner is not drained when the
\* iterator is created.
joinInnerUndrained(inn, up, innKeySel) ==
  joinLut([lut |-> <<>>, ev |-> up.ev, panic |-> FALSE], up)

\* A faulty variant of joinInner: the table is kept in the Query: an iterator
\* created while another one is live takes that one's table and drains nothing.
joinInnerShared(inn, up, innKeySel) ==
  IF inn.panic THEN [up EXCEPT !.ev = inn.ev, !.panic = TRUE]
  ELSE IF \E i \in DOMAIN its : its[i].live
       THEN joinLut([lut |-> its[CHOOSE i \in DOMAIN its : its[i].live].it.s[1].lut,
                     ev |-> up.ev, panic |-> FALSE], up)
       ELSE joinLut(makeLut(inn.it, innKeySel, <<>>, inn.ev), up)

joinInner(inn, up, innKeySel) ==
  IF inn.panic THEN [up EXCEPT !.ev = inn.ev, !.panic = TRUE]
  ELSE joinLut(makeLut(inn.it, innKeySel, <<>>, inn.ev), up)

\* q.Iterate(): the chain of closures, built from the source upwards.  Every
\* stage first calls its upstream's Iterate (next := q.Iterate()).
RECURSIVE IterateAt(_, _, _)
iterateStage(up, st, k) ==
  IF up.panic THEN up
  ELSE CASE st.op \in {"skip", "take"} ->
              Closure(up, [NoState EXCEPT !.n = st.n], up.ev, FALSE)
         [] st.op = "sort" ->
              sortByDrained(drainAt(up.it, k - 1, <<>>, up.ev), st.f)
         [] st.op = "join" ->
              joinInner(IterateAt(st.inner, Len(st.inner.st), up.ev), up, st.f[2])
         [] OTHER -> Closure(up, NoState, up.ev, FALSE)

IterateAt(q, k, ev) ==
  IF k = 0
  THEN [it |-> [q |-> q, i |-> 0, s |-> <<>>], ev |-> ev, panic |-> FALSE]
  ELSE iterateStage(IterateAt(q, k - 1, ev), q.st[k], k)

Iterate(q, ev) == IterateAt(q, Len(q.st), ev)

Pulling(it, ev) == NextAt(it, Len(it.q.st), ev)

\* ToSlice: a := []interface{}{}; next := q.Iterate(); for ... { a = append(a, elem) }
toSliceFrom(c, k) ==
  IF c.panic THEN [val |-> <<>>, it |-> c.it, ev |-> c.ev, panic |-> TRUE]
  ELSE drainAt(c.it, k, <<>>, c.ev)

ToSlice(q, ev) == toSliceFrom(Iterate(q, ev), Len(q.st))

(***************************************************************************)
(* Terminal operators.  Each one calls q.Iterate() and pulls from the      *)
(* iterator it gets; its result is the returned value, the events of the   *)
(* call and whether the call panicked.                                     *)
(***************************************************************************)
Combs == {"sum", "shift"}

ApplyComb(name, v, e) ==
  CASE name = "sum" -> v + e
    [] name = "shift" -> 4 * v + e

\* The value a terminal operator returns, with the events of the call.
V(val, ev, panic) == [val |-> val, ev |-> ev, panic |-> panic]

\* First: first, _ = next(); return
firstGot(r) == V(r.elem, r.ev, r.panic)

firstFrom(c, k) ==
  IF c.panic THEN V(Nil, c.ev, TRUE) ELSE firstGot(NextAt(c.it, k, c.ev))

First(q, ev) == firstFrom(Iterate(q, ev), Len(q.st))

\* Last: for elem, ok := next(); ok; elem, ok = next() { last = elem }
RECURSIVE lastAt(_, _, _, _)
lastGot(r, k, last) ==
  IF r.panic \/ ~r.ok THEN V(last, r.ev, r.panic) ELSE lastAt(r.it, k, r.elem, r.ev)

lastAt(it, k, last, ev) == lastGot(NextAt(it, k, ev), k, last)

lastFrom(c, k) == IF c.panic THEN V(Nil, c.ev, TRUE) ELSE lastAt(c.it, k, Nil, c.ev)

Last(q, ev) == lastFrom(Iterate(q, ev), Len(q.st))

\* At: for ; i >= 0; i-- { elem, _ = next() }: ok is not looked at.
RECURSIVE atLoop(_, _, _, _, _)
atGot(r, k, i) ==
  IF r.panic THEN V(Nil, r.ev, TRUE) ELSE atLoop(r.it, k, i - 1, r.elem, r.ev)

\* A faulty variant of atLoop: the loop runs while i > 0: one pull too few.
atLoopOffByOne(it, k, i, elem, ev) ==
  IF i > 0 THEN atGot(NextAt(it, k, ev), k, i) ELSE V(elem, ev, FALSE)

atLoop(it, k, i, elem, ev) ==
  IF i >= 0 THEN atGot(NextAt(it, k, ev), k, i) ELSE V(elem, ev, FALSE)

atFrom(c, k, i) == IF c.panic THEN V(Nil, c.ev, TRUE) ELSE atLoop(c.it, k, i, Nil, c.ev)

\* A faulty variant of At: next := q.Iterate() comes before if i < 0.
AtIterates(q, i, ev) ==
  IF i < 0 THEN V(Nil, Iterate(q, ev).ev, Iterate(q, ev).panic)
  ELSE atFrom(Iterate(q, ev), Len(q.st), i)

\* At: if i < 0 { return nil } comes before q.Iterate().
At(q, i, ev) ==
  IF i < 0 THEN V(Nil, ev, FALSE) ELSE atFrom(Iterate(q, ev), Len(q.st), i)

\* Any: has := true for every element; if has { return true }
RECURSIVE anyAt(_, _, _, _)
\* A faulty variant of anyHas: found = true without a return: the remaining
\* elements are pulled and tested before true is returned.
anyHasNoStop(p, r, k, f) ==
  IF p.has THEN V(TRUE, anyAt(r.it, k, f, p.ev).ev, FALSE)
  ELSE anyAt(r.it, k, f, p.ev)

anyHas(p, r, k, f) ==
  IF p.has THEN V(TRUE, p.ev, FALSE) ELSE anyAt(r.it, k, f, p.ev)

anyGot(r, k, f) ==
  IF r.panic \/ ~r.ok THEN V(FALSE, r.ev, r.panic)
  ELSE anyHas(allPreds(f, 1, r.elem, TRUE, r.ev), r, k, f)

anyAt(it, k, f, ev) == anyGot(NextAt(it, k, ev), k, f)

anyFrom(c, k, f) == IF c.panic THEN V(FALSE, c.ev, TRUE) ELSE anyAt(c.it, k, f, c.ev)

AnyOf(q, f, ev) == anyFrom(Iterate(q, ev), Len(q.st), f)

\* Every: has := true once, before the loop; the loop has no early return.
RECURSIVE everyAt(_, _, _, _, _)
\* A faulty variant of everyHas: if !has { return false } inside the loop.
everyHasStops(p, r, k, f) ==
  IF p.has THEN everyAt(r.it, k, f, p.has, p.ev) ELSE V(FALSE, p.ev, FALSE)

everyHas(p, r, k, f) == everyAt(r.it, k, f, p.has, p.ev)

\* A faulty variant of everyGot: has := true inside the loop: the last element
\* alone decides.
everyGotLast(r, k, f, has) ==
  IF r.panic \/ ~r.ok THEN V(has, r.ev, r.panic)
  ELSE everyHas(allPreds(f, 1, r.elem, TRUE, r.ev), r, k, f)

\* A faulty variant of everyGot: ok := true per element, has = has && ok after
\* the inner loop: the predicates are asked about every element.
everyGotFresh(r, k, f, has) ==
  IF r.panic \/ ~r.ok THEN V(has, r.ev, r.panic)
  ELSE everyHas([has |-> has /\ allPreds(f, 1, r.elem, TRUE, r.ev).has,
                 ev |-> allPreds(f, 1, r.elem, TRUE, r.ev).ev], r, k, f)

everyGot(r, k, f, has) ==
  IF r.panic \/ ~r.ok THEN V(has, r.ev, r.panic)
  ELSE everyHas(allPreds(f, 1, r.elem, has, r.ev), r, k, f)

everyAt(it, k, f, has, ev) == everyGot(NextAt(it, k, ev), k, f, has)

everyFrom(c, k, f) ==
  IF c.panic THEN V(TRUE, c.ev, TRUE) ELSE everyAt(c.it, k, f, TRUE, c.ev)

Every(q, f, ev) == everyFrom(Iterate(q, ev), Len(q.st), f)

\* Fold: for elem, ok := next(); ok; elem, ok = next() { v = f(v, elem) }
RECURSIVE foldAt(_, _, _, _, _)
\* A faulty variant of foldGot: v = f(elem, v): the arguments are exchanged.
foldGotSwapped(r, k, v, f) ==
  IF r.panic \/ ~r.ok THEN V(v, r.ev, r.panic)
  ELSE foldAt(r.it, k, ApplyComb(f, r.elem, v), f, Append(r.ev, Call(f, <<r.elem, v>>)))

foldGot(r, k, v, f) ==
  IF r.panic \/ ~r.ok THEN V(v, r.ev, r.panic)
  ELSE foldAt(r.it, k, ApplyComb(f, v, r.elem), f, Append(r.ev, Call(f, <<v, r.elem>>)))

foldAt(it, k, v, f, ev) == foldGot(NextAt(it, k, ev), k, v, f)

foldFrom(c, k, v, f) == IF c.panic THEN V(v, c.ev, TRUE) ELSE foldAt(c.it, k, v, f, c.ev)

Fold(q, v, f, ev) == foldFrom(Iterate(q, ev), Len(q.st), v, f)

\* Reduce: if v, ok := next(); ok { for ... { v = f(v, elem) }; return v }; return nil
RECURSIVE reduceAt(_, _, _, _, _)
reduceGot(r, k, v, f) ==
  IF r.panic \/ ~r.ok THEN V(v, r.ev, r.panic)
  ELSE reduceAt(r.it, k, ApplyComb(f, v, r.elem), f, Append(r.ev, Call(f, <<v, r.elem>>)))

reduceAt(it, k, v, f, ev) == reduceGot(NextAt(it, k, ev), k, v, f)

\* A faulty variant of reduceSeed: the first element is combined with itself.
reduceSeedTwice(r, k, f) ==
  IF r.panic \/ ~r.ok THEN V(Nil, r.ev, r.panic)
  ELSE reduceAt(r.it, k, ApplyComb(f, r.elem, r.elem), f,
                Append(r.ev, Call(f, <<r.elem, r.elem>>)))

reduceSeed(r, k, f) ==
  IF r.panic \/ ~r.ok THEN V(Nil, r.ev, r.panic) ELSE reduceAt(r.it, k, r.elem, f, r.ev)

reduceFrom(c, k, f) ==
  IF c.panic THEN V(Nil, c.ev, TRUE) ELSE reduceSeed(NextAt(c.it, k, c.ev), k, f)

Reduce(q, f, ev) == reduceFrom(Iterate(q, ev), Len(q.st), f)

\* Contains: if elem == e { return true }
RECURSIVE containsAt(_, _, _, _)
\* A faulty variant of containsGot: only the first element is compared.
containsGotFirst(r, k, e) ==
  IF r.panic \/ ~r.ok THEN V(FALSE, r.ev, r.panic)
  ELSE V(r.elem = e, r.ev, FALSE)

containsGot(r, k, e) ==
  IF r.panic \/ ~r.ok THEN V(FALSE, r.ev, r.panic)
  ELSE IF r.elem = e THEN V(TRUE, r.ev, FALSE)
  ELSE containsAt(r.it, k, e, r.ev)

containsAt(it, k, e, ev) == containsGot(NextAt(it, k, ev), k, e)

containsFrom(c, k, e) ==
  IF c.panic THEN V(FALSE, c.ev, TRUE) ELSE containsAt(c.it, k, e, c.ev)

Contains(q, e, ev) == containsFrom(Iterate(q, ev), Len(q.st), e)

\* IsEmpty: _, ok := next(); return !ok
isEmptyGot(r) == V(~r.ok, r.ev, r.panic)

isEmptyFrom(c, k) ==
  IF c.panic THEN V(TRUE, c.ev, TRUE) ELSE isEmptyGot(NextAt(c.it, k, c.ev))

IsEmpty(q, ev) == isEmptyFrom(Iterate(q, ev), Len(q.st))

\* ForEach: for elem, ok := next(); ok; elem, ok = next() { f(elem) }
RECURSIVE forEachAt(_, _, _, _)
\* A faulty variant of forEachGot: elem, ok = next() is repeated in the loop body:
\* every second element is passed over.
forEachGotSkips(r, k, f) ==
  IF r.panic \/ ~r.ok THEN V(Nil, r.ev, r.panic)
  ELSE forEachAt(NextAt(r.it, k, r.ev).it, k, f,
                 Append(NextAt(r.it, k, r.ev).ev, Call(f, <<r.elem>>)))

forEachGot(r, k, f) ==
  IF r.panic \/ ~r.ok THEN V(Nil, r.ev, r.panic)
  ELSE forEachAt(r.it, k, f, Append(r.ev, Call(f, <<r.elem>>)))

forEachAt(it, k, f, ev) == forEachGot(NextAt(it, k, ev), k, f)

forEachFrom(c, k, f) ==
  IF c.panic THEN V(Nil, c.ev, TRUE) ELSE forEachAt(c.it, k, f, c.ev)

ForEach(q, f, ev) == forEachFrom(Iterate(q, ev), Len(q.st), f)

(***************************************************************************)
(* The program: queries qs built over the slices a and b, terminal calls   *)
(* whose results are kept in res, and two iterator variables its[1] and    *)
(* its[2], each holding the closure returned by a call of Iterate().       *)
(***************************************************************************)
NoResult == [op |-> "none", val |-> <<>>, ev |-> <<>>, panic |-> FALSE]

NoIter == [live |-> FALSE, q |-> 0, it |-> [q |-> NoQuery, i |-> 0, s |-> <<>>],
           out |-> <<>>, done |-> FALSE, past |-> 0, elem |-> Nil, ev |-> <<>>,
           panic |-> FALSE]

Insts == {1, 2}

\* A panic that nothing recovers ends the program.
Panicked ==
  \/ \E k \in DOMAIN res : res[k].panic
  \/ \E j \in Insts : its[j].panic

Result(op, r) == [op |-> op, val |-> r.val, ev |-> r.ev, panic |-> r.panic]

CallToSlice(k) ==
  /\ ~Panicked
  /\ res[k].op = "none"
  /\ res' = [res EXCEPT ![k] = Result("ToSlice", ToSlice(qs[k], <<>>))]
  /\ UNCHANGED <<a, b, qs, its>>

\* A faulty variant of Created: the captured variables belong to the Query, not to
\* the call of Iterate: a new iterator continues where a live one stands.
CreatedShared(k, c) ==
  IF \E i \in Insts : its[i].live /\ its[i].q = k
  THEN [NoIter EXCEPT !.live = TRUE, !.q = k,
                      !.it = its[CHOOSE i \in Insts : its[i].live /\ its[i].q = k].it,
                      !.ev = c.ev, !.panic = c.panic]
  ELSE [NoIter EXCEPT !.live = TRUE, !.q = k, !.it = c.it, !.ev = c.ev,
                      !.panic = c.panic]

Created(k, c) ==
  [NoIter EXCEPT !.live = TRUE, !.q = k, !.it = c.it, !.ev = c.ev, !.panic = c.panic]

\* its[j] = qs[k].Iterate(): a fresh closure, whatever its[j] held before.
NewIterator(j, k) ==
  /\ ~Panicked
  /\ its' = [its EXCEPT ![j] = Created(k, Iterate(qs[k], <<>>))]
  /\ UNCHANGED <<a, b, qs, res>>

\* A faulty variant of store: the captured variables are shared by the iterators of
\* the query.
storeShared(j, it) ==
  [i \in Insts |-> IF its[i].live /\ its[i].q = its[j].q
                   THEN [its[i] EXCEPT !.it = it] ELSE its[i]]

\* The captured variables of the closure its[j] after a call that left them as it.
store(j, it) == [its EXCEPT ![j].it = it]

\* The program's record of the call: the elements received so far (out), the
\* last result (elem, done) and the number of calls that found it exhausted.
Received(j, r) ==
  [store(j, r.it) EXCEPT
     ![j].out = IF r.ok THEN Append(@, r.elem) ELSE @,
     ![j].done = ~r.ok,
     ![j].past = IF r.ok THEN @ ELSE @ + 1,
     ![j].elem = r.elem,
     ![j].ev = r.ev,
     ![j].panic = r.panic]

\* elem, ok := its[j]()
Pull(j) ==
  /\ ~Panicked
  /\ its[j].live
  /\ its[j].past < MaxPast
  /\ its' = Received(j, Pulling(its[j].it, <<>>))
  /\ UNCHANGED <<a, b, qs, res>>

NoIters == [j \in Insts |-> NoIter]

(***************************************************************************)
(* Where alone: ToSlice(From(a).Where(f...)) for every slice a and every   *)
(* predicate list f.                                                       *)
(***************************************************************************)
PredLists == SeqsUpTo(Preds, MaxFns)

InitWhere ==
  /\ a \in Slices
  /\ b = <<>>
  /\ \E f \in PredLists : qs = <<Where(From("a"), f)>>
  /\ its = NoIters
  /\ res = [k \in DOMAIN qs |-> NoResult]

Terminal == \E k \in DOMAIN qs : CallToSlice(k)

SpecWhere == InitWhere /\ [][Terminal]_vars

\* What the claims compare the results with.
Passes(f, e) == \A k \in DOMAIN f : ApplyPred(f[k], e)

RECURSIVE Flatten(_)
Flatten(ss) == IF ss = <<>> THEN <<>> ELSE Head(ss) \o Flatten(Tail(ss))

Min(x, y) == IF x <= y THEN x ELSE y

\* C1: ToSlice(From(a).Where(f...)) is exactly the subsequence of a, order and
\* duplicates kept, of the elements every predicate of f accepts; with no
\* predicate it is a itself.
C1_WhereIsFilter ==
  res[1].op = "ToSlice" =>
    /\ ~res[1].panic
    /\ res[1].val = SelectSeq(a, LAMBDA e : Passes(qs[1].st[1].f, e))
    /\ (qs[1].st[1].f = <<>> => res[1].val = a)

\* Two predicates, three elements, one of them dropped and a duplicate kept.
C1_Witness ==
  /\ res[1].op = "ToSlice"
  /\ Len(qs[1].st[1].f) = 2
  /\ Len(a) = 3
  /\ Len(res[1].val) = 2
  /\ res[1].val[1] = res[1].val[2]

(***************************************************************************)
(* Join alone: ToSlice(From(a).Join(From(b), ...)) for every outer slice   *)
(* a, inner slice b, pair of key selectors and result selector.            *)
(***************************************************************************)
JoinSlices == SeqsUpTo(Elems, MaxJoin)

InitJoin ==
  /\ a \in JoinSlices
  /\ b \in JoinSlices
  /\ \E outKeySel \in KeySels, innKeySel \in KeySels, resultSel \in ResultSels :
       qs = <<Join(From("a"), From("b"), outKeySel, innKeySel, resultSel)>>
  /\ its = NoIters
  /\ res = [k \in DOMAIN qs |-> NoResult]

SpecJoin == InitJoin /\ [][Terminal]_vars

\* The inner elements whose key is the key of the outer element o, in b's order.
Matching(f, o) == SelectSeq(b, LAMBDA e : ApplyKey(f[2], e) = ApplyKey(f[1], o))

\* The rows of the outer element o.
RowsOf(f, o) ==
  [n \in DOMAIN Matching(f, o) |-> ApplyResult(f[3], o, Matching(f, o)[n])]

\* C2: Join yields, for each outer element in outer order, one row
\* combine(o, i) per inner element i with the same key, in inner order; the
\* number of rows is the number of (outer, inner) pairs with equal keys, and
\* an outer element without a match has no row.
C2_JoinRows ==
  res[1].op = "ToSlice" =>
    /\ ~res[1].panic
    /\ res[1].val = Flatten([m \in DOMAIN a |-> RowsOf(qs[1].st[1].f, a[m])])
    /\ Len(res[1].val) =
         Cardinality({<<m, n>> \in (DOMAIN a) \X (DOMAIN b) :
                        ApplyKey(qs[1].st[1].f[1], a[m]) = ApplyKey(qs[1].st[1].f[2], b[n])})

\* An outer element without a match followed by one that matches two
\* different inner elements.
C2_Witness ==
  /\ res[1].op = "ToSlice"
  /\ qs[1].st[1].f[3] = "pair"
  /\ Len(a) = 2
  /\ Matching(qs[1].st[1].f, a[1]) = <<>>
  /\ Len(res[1].val) = 2
  /\ res[1].val[1] > res[1].val[2]

(***************************************************************************)
(* Sort alone: ToSlice(From(a).Sort(f...)) for every slice a and every     *)
(* list f of less functions, the empty list included.                      *)
(***************************************************************************)
CmpLists == SeqsUpTo(Cmps, MaxFns)

InitSort ==
  /\ a \in Slices
  /\ b = <<>>
  /\ \E f \in CmpLists : qs = <<Sort(From("a"), f)>>
  /\ its = NoIters
  /\ res = [k \in DOMAIN qs |-> NoResult]

SpecSort == InitSort /\ [][Terminal]_vars

\* A less function that is a strict weak ordering of the elements.
StrictWeak(c) ==
  /\ \A x \in Elems : ~ApplyCmp(c, x, x)
  /\ \A x, y, z \in Elems : ApplyCmp(c, x, y) /\ ApplyCmp(c, y, z) => ApplyCmp(c, x, z)
  /\ \A x, y, z \in Elems :
       /\ ~ApplyCmp(c, x, y) /\ ~ApplyCmp(c, y, x)
       /\ ~ApplyCmp(c, y, z) /\ ~ApplyCmp(c, z, y)
       => ~ApplyCmp(c, x, z) /\ ~ApplyCmp(c, z, x)

\* x and y are equal under the first n less functions of f.
EqualUnder(f, n, x, y) ==
  \A k \in 1..n : ~ApplyCmp(f[k], x, y) /\ ~ApplyCmp(f[k], y, x)

\* C3: with less functions that are strict weak orderings, two elements equal
\* under all but the last stand in the order the last one decides, and the
\* elements equal under all of them keep their original relative order.
C3_SortStable ==
  LET f == qs[1].st[1].f
      val == res[1].val
  IN (res[1].op = "ToSlice" /\ f # <<>> /\ \A k \in DOMAIN f : StrictWeak(f[k])) =>
       /\ ~res[1].panic
       /\ \A i, j \in DOMAIN val :
            i < j /\ EqualUnder(f, Len(f) - 1, val[i], val[j])
            => ~ApplyCmp(f[Len(f)], val[j], val[i])
       /\ \A x \in Elems :
            SelectSeq(val, LAMBDA e : EqualUnder(f, Len(f), e, x))
              = SelectSeq(a, LAMBDA e : EqualUnder(f, Len(f), e, x))

\* The first less function leaves everything equal, the last one moves an
\* odd element behind two different even ones, which keep their order.
C3_Witness ==
  /\ res[1].op = "ToSlice"
  /\ qs[1].st[1].f = <<"never", "lessMod2">>
  /\ a = <<2, 1, 0>>
  /\ res[1].val = <<2, 0, 1>>

\* C4: Sort with no less function returns the elements in their original
\* order, whatever their number, and completes normally.
C4_SortNoLessKeepsOrder ==
  (res[1].op = "ToSlice" /\ qs[1].st[1].f = <<>>) =>
    ~res[1].panic /\ res[1].val = a

(***************************************************************************)
(* Skip and Take of the same slice and count: the two queries              *)
(* From(a).Take(n) and From(a).Skip(n), each materialised once.            *)
(***************************************************************************)
Counts == (0 - 2)..(MaxLen + 2)

InitSkipTake ==
  /\ a \in Slices
  /\ b = <<>>
  /\ \E n \in Counts : qs = <<Take(From("a"), n), Skip(From("a"), n)>>
  /\ its = NoIters
  /\ res = [k \in DOMAIN qs |-> NoResult]

SpecSkipTake == InitSkipTake /\ [][Terminal]_vars

\* C5 as stated: for every n, negative ones included, the elements of Take(n)
\* followed by those of Skip(n) are a.
C5_PartitionAnyCount ==
  (res[1].op = "ToSlice" /\ res[2].op = "ToSlice") =>
    res[1].val \o res[2].val = a

\* C5, amended: for every n >= 0 the elements of Take(n) followed by those of
\* Skip(n) are a, and Take(n) has min(n, |a|) of them.
C5_PartitionNonNegative ==
  (res[1].op = "ToSlice" /\ res[2].op = "ToSlice" /\ qs[1].st[1].n >= 0) =>
    /\ res[1].val \o res[2].val = a
    /\ Len(res[1].val) = Min(qs[1].st[1].n, Len(a))

\* A count that splits a into two non-empty parts.
C5_Witness ==
  /\ res[1].op = "ToSlice" /\ res[2].op = "ToSlice"
  /\ qs[1].st[1].n > 0
  /\ res[1].val # <<>> /\ res[2].val # <<>>

\* C9: Skip(n) is empty for negative n and otherwise a without its first
\* min(n, |a|) elements.
C9_Skip ==
  res[2].op = "ToSlice" =>
    /\ ~res[2].panic
    /\ res[2].val = IF qs[2].st[1].n < 0 THEN <<>>
                    ELSE SubSeq(a, Min(qs[2].st[1].n, Len(a)) + 1, Len(a))

\* Skip drops two of three elements.
C9_Witness ==
  /\ res[2].op = "ToSlice"
  /\ qs[2].st[1].n = 2
  /\ Len(a) = 3
  /\ res[2].val = <<a[3]>>

\* C10: Take(n) is empty for n <= 0 and otherwise the first min(n, |a|)
\* elements of a.
C10_Take ==
  res[1].op = "ToSlice" =>
    /\ ~res[1].panic
    /\ res[1].val = IF qs[1].st[1].n <= 0 THEN <<>>
                    ELSE SubSeq(a, 1, Min(qs[1].st[1].n, Len(a)))

\* Take keeps two of three elements.
C10_Witness ==
  /\ res[1].op = "ToSlice"
  /\ qs[1].st[1].n = 2
  /\ Len(a) = 3
  /\ res[1].val = <<a[1], a[2]>>

(***************************************************************************)
(* Expand alone: ToSlice(From(a).Expand(f)) for every slice a and every    *)
(* expansion f.                                                            *)
(***************************************************************************)
InitExpand ==
  /\ a \in Slices
  /\ b = <<>>
  /\ \E f \in Expanders : qs = <<Expand(From("a"), f)>>
  /\ its = NoIters
  /\ res = [k \in DOMAIN qs |-> NoResult]

SpecExpand == InitExpand /\ [][Terminal]_vars

\* C6: Expand yields f(a[0]) ++ f(a[1]) ++ ..., empty expansions adding
\* nothing, and with f = x -> [x] it yields a.
C6_ExpandConcat ==
  res[1].op = "ToSlice" =>
    /\ ~res[1].panic
    /\ res[1].val = Flatten([m \in DOMAIN a |-> ApplyExpand(qs[1].st[1].f[1], a[m])])
    /\ (qs[1].st[1].f[1] = "copy" => res[1].val = a)

\* An expansion of two elements, an empty one, then one of one element.
C6_Witness ==
  /\ res[1].op = "ToSlice"
  /\ qs[1].st[1].f[1] = "upto"
  /\ a = <<2, 0, 1>>
  /\ res[1].val = <<0, 1, 0>>

(***************************************************************************)
(* Chains: a query built stage by stage over a, then traversed through the *)
(* two iterator variables in any interleaving; either variable may be      *)
(* assigned a fresh iterator at any time.                                  *)
(***************************************************************************)
\* The slices of the chains: the runs of consecutive elements of 1, 2, ..., 0.
Canon == [m \in 1..MaxSrc |-> m % (MaxElem + 1)]

ChainSlices == {SubSeq(Canon, m, n) : m \in 1..(MaxSrc + 1), n \in 0..MaxSrc}

\* The stages a chain is built from.
Menu(q) ==
  {Where(q, <<"positive">>), MapTo(q, "inc"), Expand(q, "duplicate"), Skip(q, 1),
   Take(q, 2), Sort(q, <<"lessMod2", "greater">>),
   Join(q, Skip(From("a"), 1), "mod2", "mod2", "inner")}

Init ==
  /\ a \in ChainSlices
  /\ b = <<>>
  /\ qs = <<From("a")>>
  /\ its = NoIters
  /\ res = [k \in DOMAIN qs |-> NoResult]

\* qs[1] = qs[1].Op(...): the next stage of the chain.
Build ==
  /\ Len(qs[1].st) < MaxStages
  /\ \A j \in Insts : ~its[j].live
  /\ \E q \in Menu(qs[1]) : qs' = <<q>>
  /\ UNCHANGED <<a, b, its, res>>

Traverse == \E j \in Insts : NewIterator(j, 1) \/ Pull(j)

Next == Build \/ Traverse

Spec == Init /\ [][Next]_vars

IsPrefix(s, t) == Len(s) <= Len(t) /\ s = SubSeq(t, 1, Len(s))

\* C7: an iterator obtained by calling Iterate() again, after any earlier
\* full or partial traversals, yields the stream of the other traversal from
\* its first element: of two iterators of the query, one has received a
\* prefix of what the other has, and an exhausted one has received all of it.
C7_Restartable ==
  \A i, j \in Insts :
    (its[i].live /\ its[j].live) =>
      /\ IsPrefix(its[i].out, its[j].out) \/ IsPrefix(its[j].out, its[i].out)
      /\ its[i].done => IsPrefix(its[j].out, its[i].out)

\* One iterator is exhausted after two or more elements of a two-stage chain
\* with a Skip or Take counter; the other has received its first element.
C7_Witness ==
  /\ Len(qs[1].st) = 2
  /\ \E k \in DOMAIN qs[1].st : qs[1].st[k].op \in {"skip", "take"}
  /\ its[1].done /\ Len(its[1].out) >= 2
  /\ its[2].live /\ Len(its[2].out) = 1

\* The full element stream of the query.
Stream == ToSlice(qs[1], <<>>).val

\* C8: two iterators of one query, pulled in any interleaving, each produce
\* the full stream of the query: what either has received is a prefix of the
\* stream, and all of it once exhausted, whatever the other one did.
C8_Independent ==
  LET stream == Stream
  IN \A j \in Insts :
       its[j].live =>
         /\ IsPrefix(its[j].out, stream)
         /\ its[j].done => its[j].out = stream

\* Both iterators of a join are in the middle of the stream, at different
\* positions.
C8_Witness ==
  /\ \E k \in DOMAIN qs[1].st : qs[1].st[k].op = "join"
  /\ its[1].live /\ its[2].live
  /\ ~its[1].done /\ ~its[2].done
  /\ Len(its[1].out) = 2 /\ Len(its[2].out) = 1
  /\ Len(Stream) > 2

(***************************************************************************)
(* MapTo alone: m := From(a).MapTo(f) for every slice a and mapper f,      *)
(* traversed twice: qs[1] and qs[2] are the same Query.                    *)
(***************************************************************************)
InitMapTo ==
  /\ a \in Slices
  /\ b = <<>>
  /\ \E f \in Mappers : qs = <<MapTo(From("a"), f), MapTo(From("a"), f)>>
  /\ its = NoIters
  /\ res = [k \in DOMAIN qs |-> NoResult]

SpecMapTo == InitMapTo /\ [][Terminal]_vars

\* The callback invocations and the pulls on a source among the events ev.
CallsIn(ev) == SelectSeq(ev, LAMBDA e : e[1] = "call")

PullsIn(ev) == SelectSeq(ev, LAMBDA e : e[1] = "pull")

\* C11: MapTo yields f(a[0]), f(a[1]), ... in order, |a| elements; a traversal
\* invokes f once per element, in order, and so does a second traversal of
\* the same query.
C11_MapTo ==
  \A k \in DOMAIN res :
    res[k].op = "ToSlice" =>
      /\ ~res[k].panic
      /\ res[k].val = [m \in DOMAIN a |-> ApplyMap(qs[k].st[1].f[1], a[m])]
      /\ Len(res[k].val) = Len(a)
      /\ CallsIn(res[k].ev) = [m \in DOMAIN a |-> Call(qs[k].st[1].f[1], <<a[m]>>)]

\* Both traversals of a query over three elements are done, each with three
\* invocations of f.
C11_Witness ==
  /\ res[1].op = "ToSlice" /\ res[2].op = "ToSlice"
  /\ a = <<2, 0, 1>>
  /\ qs[1].st[1].f[1] = "double"
  /\ res[2].val = <<4, 0, 2>>
  /\ Len(CallsIn(res[1].ev)) = 3 /\ Len(CallsIn(res[2].ev)) = 3

(***************************************************************************)
(* Terminal calls: one query over a, of every kind of stage, and one call  *)
(* of a terminal operator on it.                                           *)
(***************************************************************************)
\* The program's record of a terminal call with the arguments arg.
Called(op, arg, r) ==
  [op |-> op, arg |-> arg, val |-> r.val, ev |-> r.ev, panic |-> r.panic]

Finish(k, c) ==
  /\ ~Panicked
  /\ res[k].op = "none"
  /\ res' = [res EXCEPT ![k] = c]
  /\ UNCHANGED <<a, b, qs, its>>

CallFirst(k) == Finish(k, Called("First", <<>>, First(qs[k], <<>>)))

CallLast(k) == Finish(k, Called("Last", <<>>, Last(qs[k], <<>>)))

CallAt(k, i) == Finish(k, Called("At", <<i>>, At(qs[k], i, <<>>)))

CallAny(k, f) == Finish(k, Called("Any", f, AnyOf(qs[k], f, <<>>)))

CallEvery(k, f) == Finish(k, Called("Every", f, Every(qs[k], f, <<>>)))

CallFold(k, v, f) == Finish(k, Called("Fold", <<v, f>>, Fold(qs[k], v, f, <<>>)))

CallReduce(k, f) == Finish(k, Called("Reduce", <<f>>, Reduce(qs[k], f, <<>>)))

CallContains(k, e) == Finish(k, Called("Contains", <<e>>, Contains(qs[k], e, <<>>)))

CallIsEmpty(k) == Finish(k, Called("IsEmpty", <<>>, IsEmpty(qs[k], <<>>)))

\* From(a) alone and with one stage of each operator.
Shapes == {From("a")} \cup Menu(From("a"))

\* The same, and Sort called with no less function.
AllShapes == Shapes \cup {Sort(From("a"), <<>>)}

InitOver(shapes) ==
  /\ a \in Slices
  /\ b = <<>>
  /\ \E q \in shapes : qs = <<q>>
  /\ its = NoIters
  /\ res = [k \in DOMAIN qs |-> NoResult]

\* The indexes At is called with: negative ones, and up to one past the
\* longest sequence (an expansion of a).
Indexes == (0 - 2)..(2 * MaxLen + 1)

Sentinel ==
  \/ CallFirst(1)
  \/ CallLast(1)
  \/ \E f \in Combs : CallReduce(1, f)
  \/ \E i \in Indexes : CallAt(1, i)

SpecSentinel == InitOver(AllShapes) /\ [][Sentinel]_vars

\* The query q without its last stage.
Upstream(q) == [q EXCEPT !.st = SubSeq(@, 1, Len(@) - 1)]

\* The number of elements of the sequence of q; a sorted sequence has the
\* number of elements of the sequence that is sorted.
Length(q) ==
  IF q.st # <<>> /\ q.st[Len(q.st)].op = "sort"
  THEN Len(ToSlice(Upstream(q), <<>>).val)
  ELSE Len(ToSlice(q, <<>>).val)

\* C12: First, Last and Reduce on an empty sequence, and At(i) for i < 0 or
\* i >= length, return nil and do not panic, whatever operator produced the
\* sequence.
C12_Sentinels ==
  /\ (res[1].op \in {"First", "Last", "Reduce"} /\ Length(qs[1]) = 0) =>
       ~res[1].panic /\ res[1].val = Nil
  /\ (res[1].op = "At" /\ (res[1].arg[1] < 0 \/ res[1].arg[1] >= Length(qs[1]))) =>
       ~res[1].panic /\ res[1].val = Nil

(***************************************************************************)
(* At, First and Last on the sequences of Shapes.                          *)
(***************************************************************************)
Positional ==
  \/ CallFirst(1)
  \/ CallLast(1)
  \/ \E i \in Indexes : CallAt(1, i)

SpecAt == InitOver(Shapes) /\ [][Positional]_vars

\* C13: with s the sequence of the query, At(i) is s[i] for 0 <= i < |s| (a[i]
\* for From(a)), First() is At(0), and Last() is At(|s| - 1) for non-empty s.
C13_At ==
  LET s == Stream
  IN /\ (res[1].op = "At" /\ res[1].arg[1] >= 0 /\ res[1].arg[1] < Len(s)) =>
          /\ ~res[1].panic
          /\ res[1].val = s[res[1].arg[1] + 1]
          /\ qs[1].st = <<>> => res[1].val = a[res[1].arg[1] + 1]
     /\ res[1].op = "First" =>
          ~res[1].panic /\ res[1].val = At(qs[1], 0, <<>>).val
     /\ (res[1].op = "Last" /\ s # <<>>) =>
          /\ ~res[1].panic
          /\ res[1].val = At(qs[1], Len(s) - 1, <<>>).val
          /\ res[1].val = s[Len(s)]

\* At(2) of an expansion into four elements, the third unlike the first.
C13_Witness ==
  /\ res[1].op = "At"
  /\ res[1].arg = <<2>>
  /\ qs[1].st # <<>> /\ qs[1].st[1].op = "expand"
  /\ Len(Stream) > 3
  /\ res[1].val = Stream[3]
  /\ res[1].val # Stream[1]

(***************************************************************************)
(* Any on the sequences of FewShapes, with every predicate list.           *)
(***************************************************************************)
\* From(a) alone, filtered, and expanded.
FewShapes ==
  {From("a"), Where(From("a"), <<"positive">>), Expand(From("a"), "duplicate")}

Existential == \E f \in PredLists : CallAny(1, f)

SpecAny == InitOver(FewShapes) /\ [][Existential]_vars

\* The position of the first element of s that satisfies every predicate of
\* f; 0 if there is none.
FirstPassing(f, s) ==
  IF \E m \in DOMAIN s : Passes(f, s[m])
  THEN CHOOSE m \in DOMAIN s :
         Passes(f, s[m]) /\ \A n \in 1..(m - 1) : ~Passes(f, s[n])
  ELSE 0

\* The number of predicates a conjunction evaluated left to right asks about e:
\* up to and including the first one that rejects e.
Tested(f, e) ==
  IF Passes(f, e) THEN Len(f)
  ELSE CHOOSE k \in DOMAIN f :
         ~ApplyPred(f[k], e) /\ \A n \in 1..(k - 1) : ApplyPred(f[n], e)

RECURSIVE TestedUpTo(_, _, _)
TestedUpTo(f, s, m) == IF m = 0 THEN 0 ELSE TestedUpTo(f, s, m - 1) + Tested(f, s[m])

\* C14: Any(f...) is true iff some element satisfies every predicate, false on
\* an empty sequence; when true, the source is pulled exactly as far as
\* fetching the first satisfying element takes, and the predicates are asked
\* about the elements up to that one only.
C14_Any ==
  LET s == Stream
      f == res[1].arg
  IN res[1].op = "Any" =>
       /\ ~res[1].panic
       /\ res[1].val = (\E n \in DOMAIN s : Passes(f, s[n]))
       /\ s = <<>> => res[1].val = FALSE
       /\ res[1].val = TRUE =>
            LET m == FirstPassing(f, s)
                fetch == At(qs[1], m - 1, <<>>).ev
            IN /\ PullsIn(res[1].ev) = PullsIn(fetch)
               /\ Len(CallsIn(res[1].ev)) = Len(CallsIn(fetch)) + TestedUpTo(f, s, m)

\* Two predicates; the second of three or more elements is the first to
\* satisfy both.
C14_Witness ==
  /\ res[1].op = "Any"
  /\ res[1].val = TRUE
  /\ Len(res[1].arg) = 2
  /\ Len(Stream) >= 3
  /\ FirstPassing(res[1].arg, Stream) = 2

(***************************************************************************)
(* Every on the sequences of FewShapes, with every predicate list.         *)
(***************************************************************************)
Universal == \E f \in PredLists : CallEvery(1, f)

SpecEvery == InitOver(FewShapes) /\ [][Universal]_vars

\* C15: Every(f...) is true iff every element satisfies every predicate; on an
\* empty sequence it is true for any predicate list, one of predicates that
\* are always false included.
C15_Every ==
  LET s == Stream
      f == res[1].arg
  IN res[1].op = "Every" =>
       /\ ~res[1].panic
       /\ res[1].val = (\A n \in DOMAIN s : Passes(f, s[n]))
       /\ s = <<>> => res[1].val = TRUE

\* Two predicates; an element that fails is followed by a last element that
\* satisfies both.
C15_Witness ==
  /\ res[1].op = "Every"
  /\ res[1].val = FALSE
  /\ Len(res[1].arg) = 2
  /\ Len(Stream) >= 2
  /\ Passes(res[1].arg, Stream[Len(Stream)])

(***************************************************************************)
(* Fold on the sequences of Shapes, with each combiner and initial value.  *)
(***************************************************************************)
Seeds == {0, 1}

Accumulate == \E v \in Seeds, f \in Combs : CallFold(1, v, f)

SpecFold == InitOver(Shapes) /\ [][Accumulate]_vars

\* f(...f(f(v, s[1]), s[2])..., s[n]), written from the last element inwards.
RECURSIVE FoldLeft(_, _, _)
FoldLeft(f, v, s) ==
  IF s = <<>> THEN v
  ELSE ApplyComb(f, FoldLeft(f, v, SubSeq(s, 1, Len(s) - 1)), s[Len(s)])

\* The invocations of the callback f among the events ev.
CallsOf(f, ev) == SelectSeq(ev, LAMBDA e : e[1] = "call" /\ e[2] = f)

\* C16: Fold(v, f) is f(...f(f(v, s[1]), s[2])..., s[n]); f is invoked once per
\* element, in order, each time with the value accumulated so far; on an empty
\* sequence the result is v and f is not invoked.
C16_Fold ==
  LET s == Stream
      v == res[1].arg[1]
      f == res[1].arg[2]
  IN res[1].op = "Fold" =>
       /\ ~res[1].panic
       /\ res[1].val = FoldLeft(f, v, s)
       /\ CallsOf(f, res[1].ev) =
            [m \in DOMAIN s |-> Call(f, <<FoldLeft(f, v, SubSeq(s, 1, m - 1)), s[m]>>)]
       /\ s = <<>> => res[1].val = v /\ CallsOf(f, res[1].ev) = <<>>

\* Three different elements combined by a function that is not commutative.
C16_Witness ==
  /\ res[1].op = "Fold"
  /\ res[1].arg = <<1, "shift">>
  /\ Stream = <<2, 0, 1>>
  /\ res[1].val = 97

(***************************************************************************)
(* Reduce on the sequences of Shapes, with each combiner.                  *)
(***************************************************************************)
Combine == \E f \in Combs : CallReduce(1, f)

SpecReduce == InitOver(Shapes) /\ [][Combine]_vars

\* C17: on a non-empty sequence Reduce(f) is Skip(1).Fold(First(), f): the
\* first element combined with the others in order; on a sequence of one
\* element it is that element and f is not invoked; on an empty sequence it
\* is nil.
C17_Reduce ==
  LET s == Stream
      f == res[1].arg[1]
  IN res[1].op = "Reduce" =>
       /\ ~res[1].panic
       /\ s # <<>> =>
            /\ res[1].val = Fold(Skip(qs[1], 1), First(qs[1], <<>>).val, f, <<>>).val
            /\ res[1].val = FoldLeft(f, s[1], Tail(s))
       /\ Len(s) = 1 => res[1].val = s[1] /\ CallsOf(f, res[1].ev) = <<>>
       /\ s = <<>> => res[1].val = Nil

\* Three different elements combined by a function that is not commutative.
C17_Witness ==
  /\ res[1].op = "Reduce"
  /\ res[1].arg = <<"shift">>
  /\ Stream = <<1, 2, 0>>
  /\ res[1].val = 24

(***************************************************************************)
(* Contains on the sequences of Shapes, asked for every element value, for *)
(* a value no slice holds, and for nil.                                    *)
(***************************************************************************)
Wanted == Elems \cup {MaxElem + 1, Nil}

Membership == \E e \in Wanted : CallContains(1, e)

SpecContains == InitOver(Shapes) /\ [][Membership]_vars

\* C18: Contains(v) is true iff some element of the sequence equals v; on an
\* empty sequence it is false for every v, nil included.
C18_Contains ==
  LET s == Stream
  IN res[1].op = "Contains" =>
       /\ ~res[1].panic
       /\ res[1].val = (\E m \in DOMAIN s : s[m] = res[1].arg[1])
       /\ s = <<>> => res[1].val = FALSE

\* The value asked for is the third element and not the first or second.
C18_Witness ==
  /\ res[1].op = "Contains"
  /\ res[1].val = TRUE
  /\ Len(Stream) >= 3
  /\ Stream[3] = res[1].arg[1]
  /\ Stream[1] # res[1].arg[1] /\ Stream[2] # res[1].arg[1]

(***************************************************************************)
(* From alone: ToSlice(From(a)) or From(a).IsEmpty() for every slice a.    *)
(***************************************************************************)
RoundTrip == Terminal \/ CallIsEmpty(1)

SpecRoundTrip == InitOver({From("a")}) /\ [][RoundTrip]_vars

\* C19: ToSlice(From(a)) is a, element for element and in order, the empty
\* list for an empty a; From(a).IsEmpty() is true iff a has no element.
C19_RoundTrip ==
  /\ res[1].op = "ToSlice" =>
       /\ ~res[1].panic
       /\ res[1].val = a
       /\ a = <<>> => res[1].val = <<>>
  /\ res[1].op = "IsEmpty" =>
       ~res[1].panic /\ res[1].val = (a = <<>>)

\* A slice of three different elements, not in ascending order, comes back.
C19_Witness ==
  /\ res[1].op = "ToSlice"
  /\ a = <<2, 0, 1>>
  /\ res[1].val = <<2, 0, 1>>

(***************************************************************************)
(* Building and then traversing: a chain is built stage by stage over a,   *)
(* and the events of every call the program makes are added to one record. *)
(***************************************************************************)
\* A faulty variant of Constructed: the constructor calls the iterator function of
\* the new stage (return &Query{...} around where(q, f) itself, not around a
\* closure that calls it).
ConstructedEager(q) == V(q, Iterate(q, <<>>).ev, Iterate(q, <<>>).panic)

\* From, Where, MapTo, Expand, Skip, Take, Join, Sort: iterate := func() Iterator
\* { return op(q, ...) }; return &Query{iterate}: a closure is allocated and
\* nothing is called.
Constructed(q) == V(q, <<>>, FALSE)

\* The record of the calls so far, after a call c.
Logged(op, c) == Called(op, <<>>, V(<<>>, res[1].ev \o c.ev, c.panic))

InitLazy ==
  /\ a \in ChainSlices
  /\ b = <<>>
  /\ qs = <<Constructed(From("a")).val>>
  /\ its = NoIters
  /\ res = <<Called("build", <<>>, V(<<>>, Constructed(From("a")).ev, FALSE))>>

Constructing(c) ==
  /\ qs' = <<c.val>>
  /\ res' = [res EXCEPT ![1] = Logged("build", c)]
  /\ UNCHANGED <<a, b, its>>

\* qs[1] = qs[1].Op(...)
Construct ==
  /\ ~Panicked
  /\ res[1].op = "build"
  /\ Len(qs[1].st) < MaxStages
  /\ \E q \in Menu(qs[1]) : Constructing(Constructed(q))

\* ToSlice(qs[1]) after the chain is built.
Materialise ==
  /\ ~Panicked
  /\ res[1].op = "build"
  /\ res' = [res EXCEPT ![1] = Logged("ToSlice", ToSlice(qs[1], <<>>))]
  /\ UNCHANGED <<a, b, qs, its>>

Lazy == Construct \/ Materialise

SpecLazy == InitLazy /\ [][Lazy]_vars

\* C20: as long as the program has only built queries (From and any chain of
\* Where, MapTo, Expand, Skip, Take, Join and Sort), no callback has been
\* invoked and no element has been pulled from a source.
C20_BuildIsLazy ==
  res[1].op = "build" => res[1].ev = <<>> /\ ~res[1].panic

\* A chain of a Sort and a Join over three elements is built and nothing has
\* happened, while traversing it invokes callbacks and pulls elements.
C20_Witness ==
  /\ res[1].op = "build"
  /\ Len(a) = 3
  /\ Len(qs[1].st) = 2
  /\ qs[1].st[1].op = "sort" /\ qs[1].st[2].op = "join"
  /\ res[1].ev = <<>>
  /\ CallsIn(ToSlice(qs[1], <<>>).ev) # <<>>
  /\ PullsIn(ToSlice(qs[1], <<>>).ev) # <<>>

(***************************************************************************)
(* More about SpecSort: the sorted sequence as a whole.                    *)
(***************************************************************************)
\* The composite relation of the chain f: the first less function that tells
\* x and y apart puts x first.
CompositeLess(f, x, y) ==
  \E k \in DOMAIN f : EqualUnder(f, k - 1, x, y) /\ ApplyCmp(f[k], x, y)

\* The number of elements of s equal to x.
Count(s, x) == Cardinality({m \in DOMAIN s : s[m] = x})

Visitors == {"print", "append"}

CallForEach(k, f) == Finish(k, Called("ForEach", <<f>>, ForEach(qs[k], f, <<>>)))

Visit == \E f \in Visitors : CallForEach(1, f)

SpecForEach == InitOver(Shapes) /\ [][Visit]_vars

\* C22: ForEach(f) invokes f once per element of the sequence, in sequence
\* order, and not at all on an empty sequence.
C22_ForEach ==
  LET s == Stream
      f == res[1].arg[1]
  IN res[1].op = "ForEach" =>
       /\ ~res[1].panic
       /\ CallsOf(f, res[1].ev) = [m \in DOMAIN s |-> Call(f, <<s[m]>>)]
       /\ s = <<>> => CallsOf(f, res[1].ev) = <<>>

\* Three elements, the last unlike the first, each visited once.
C22_Witness ==
  /\ res[1].op = "ForEach"
  /\ Len(Stream) = 3
  /\ Stream[1] # Stream[3]
  /\ Len(CallsOf(res[1].arg[1], res[1].ev)) = 3

(***************************************************************************)
(* Iterators of a Join: j := From(a).Join(From(b), ...) with two different *)
(* key selectors; its[1] and its[2] are assigned j.Iterate() and called in *)
(* any interleaving.                                                       *)
(***************************************************************************)
InitJoinIter ==
  /\ a \in ChainSlices
  /\ b \in ChainSlices
  /\ \E sel \in {<<"keySel", "mod2">>, <<"mod2", "keySel">>}, resultSel \in ResultSels :
       qs = <<Join(From("a"), From("b"), sel[1], sel[2], resultSel)>>
  /\ its = NoIters
  /\ res = [k \in DOMAIN qs |-> NoResult]

SpecJoinIter == InitJoinIter /\ [][Traverse]_vars

\* The number of calls made of the iterator its[j] since it was created.
Calls(j) == Len(its[j].out) + its[j].past

\* Among the events ev, the pulls on inner and the invocations of innerKey.
InnerEvents(ev) ==
  SelectSeq(ev, LAMBDA e : \/ e[1] = "pull" /\ e[2] = "b"
                           \/ e[1] = "call" /\ e[2] = qs[1].st[1].f[2])

\* Draining inner once: every element pulled and given to innerKey, and the
\* pull that finds inner exhausted.
FullDrain ==
  [m \in 1..(2 * Len(b) + 1) |->
     IF m % 2 = 1 THEN Pulled("b", (m - 1) \div 2)
     ELSE Call(qs[1].st[1].f[2], <<b[m \div 2]>>)]

\* The table of s under the key selector f: each key with its elements in
\* the order of s.
GroupsOf(f, s) ==
  [key \in {ApplyKey(f, s[m]) : m \in DOMAIN s} |->
     SelectSeq(s, LAMBDA e : ApplyKey(f, e) = key)]

\* C23 as stated: an iterator of the Join that was created and not yet called
\* has pulled nothing from inner and not invoked innerKey, and its first call
\* drains inner completely.
C23_DrainsOnFirstPull ==
  \A j \in Insts :
    its[j].live =>
      /\ Calls(j) = 0 => InnerEvents(its[j].ev) = <<>>
      /\ Calls(j) = 1 => InnerEvents(its[j].ev) = FullDrain

\* C23, amended: creating an iterator of the Join (Iterate()) drains inner
\* completely, exactly once, and invokes innerKey on each inner element; no
\* call of the iterator, the first included, pulls from inner or invokes
\* innerKey.
C23_DrainsOnIterate ==
  \A j \in Insts :
    its[j].live =>
      /\ ~its[j].panic
      /\ Calls(j) = 0 => its[j].ev = FullDrain
      /\ Calls(j) >= 1 => InnerEvents(its[j].ev) = <<>>

\* One iterator was created over an inner slice of two or more elements and
\* never called; the other has been called and returned a row.
C23_Witness ==
  /\ Len(b) >= 2
  /\ its[1].live /\ Calls(1) = 0
  /\ its[2].live /\ Calls(2) = 1 /\ Len(its[2].out) = 1

\* C24: every iterator of one Join call has its own table: each creation
\* drains inner and invokes innerKey on every inner element, so k traversals
\* do so k times; each iterator's table is the complete table of inner and
\* its rows are the rows of the join, whatever the other iterator has done.
C24_TablePerIterator ==
  \A j \in Insts :
    its[j].live =>
      /\ its[j].it.s[1].lut = GroupsOf(qs[1].st[1].f[2], b)
      /\ Calls(j) = 0 =>
           /\ PullsIn(its[j].ev) = [m \in 1..(Len(b) + 1) |-> Pulled("b", m - 1)]
           /\ CallsIn(its[j].ev) = [m \in DOMAIN b |-> Call(qs[1].st[1].f[2], <<b[m]>>)]
      /\ IsPrefix(its[j].out, Flatten([m \in DOMAIN a |-> RowsOf(qs[1].st[1].f, a[m])]))
      /\ its[j].done =>
           its[j].out = Flatten([m \in DOMAIN a |-> RowsOf(qs[1].st[1].f, a[m])])

\* A second iterator is created, and has drained inner again, after the
\* first one has returned all its rows.
C24_Witness ==
  /\ Len(b) >= 2
  /\ its[1].live /\ its[1].done /\ Len(its[1].out) >= 2
  /\ its[2].live /\ Calls(2) = 0
  /\ Len(CallsIn(its[2].ev)) = Len(b)

(***************************************************************************)
(* Iterators of a Sort: q := From(a).Sort(f...), one Sort() call; its[1]   *)
(* and its[2] are assigned q.Iterate() and called in any interleaving.     *)
(***************************************************************************)
SortChains == {<<"less">>, <<"lessMod2", "greater">>}

InitSortIter ==
  /\ a \in Slices
  /\ b = <<>>
  /\ \E f \in SortChains : qs = <<Sort(From("a"), f)>>
  /\ its = NoIters
  /\ res = [k \in DOMAIN qs |-> NoResult]

SpecSortIter == InitSortIter /\ [][Traverse]_vars

\* C25 as stated: the traversals of the Query of one Sort() call drain
\* upstream and sort once in total: of two iterators created and not yet
\* called, at most one has pulled from upstream or invoked a less function.
C25_SortsOncePerCall ==
  \A i, j \in Insts :
    (i # j /\ its[i].live /\ its[j].live /\ Calls(i) = 0 /\ Calls(j) = 0) =>
      its[i].ev = <<>> \/ its[j].ev = <<>>

\* C25, amended: sorting happens once per iterator: each creation of an
\* iterator (Iterate()) drains upstream and sorts into a buffer of its own;
\* the calls of the iterator read that buffer from its own position and
\* neither pull from upstream nor invoke a less function.
C25_SortsPerIterator ==
  \A j \in Insts :
    its[j].live =>
      /\ ~its[j].panic
      /\ Calls(j) = 0 =>
           /\ PullsIn(its[j].ev) = [m \in 1..(Len(a) + 1) |-> Pulled("a", m - 1)]
           /\ Len(a) >= 2 => CallsIn(its[j].ev) # <<>>
      /\ Calls(j) >= 1 => its[j].ev = <<>>
      /\ \A x \in Elems : Count(its[j].it.s[1].a, x) = Count(a, x)
      /\ \A m, n \in DOMAIN its[j].it.s[1].a :
           m < n => ~CompositeLess(qs[1].st[1].f, its[j].it.s[1].a[n], its[j].it.s[1].a[m])
      /\ IsPrefix(its[j].out, its[j].it.s[1].a)
      /\ its[j].done => its[j].out = its[j].it.s[1].a

\* A second iterator is created, and has drained and sorted three elements
\* again, while the first one is in the middle of its buffer.
C25_Witness ==
  /\ Len(a) = 3
  /\ its[1].live /\ Len(its[1].out) = 2 /\ ~its[1].done
  /\ its[2].live /\ Calls(2) = 0
  /\ Len(PullsIn(its[2].ev)) = 4
  /\ CallsIn(its[2].ev) # <<>>

(***************************************************************************)
(* Iterators of an Expand: its[1] and its[2] are assigned                  *)
(* From(a).Expand(f).Iterate() and called in any interleaving.             *)
(***************************************************************************)
SpecExpandIter == InitExpand /\ [][Traverse]_vars

\* The number of elements the first m elements of a expand into.
RECURSIVE Expanded(_, _)
Expanded(f, m) ==
  IF m = 0 THEN 0 ELSE Expanded(f, m - 1) + Len(ApplyExpand(f, a[m]))

\* The number of elements of a that must be expanded to get n elements.
Needed(f, n) == CHOOSE m \in 0..Len(a) :
                  /\ Expanded(f, m) >= n
                  /\ \A l \in 0..(m - 1) : Expanded(f, l) < n

\* Pulling the elements p+1 .. q of a and invoking f on each, once.
Fetching(f, p, q) ==
  [m \in 1..(2 * (q - p)) |->
     IF m % 2 = 1 THEN Pulled("a", p + (m - 1) \div 2)
     ELSE Call(f, <<a[p + m \div 2]>>)]

\* C26: an iterator of Expand has pulled from upstream exactly the elements
\* needed for what it has returned: a call that returns an element pulls,
\* and invokes f once on, the elements after those already needed up to the
\* one whose expansion holds the returned element (none if the current
\* expansion still had one), and the call that finds the end pulls the rest.
C26_ExpandOnDemand ==
  LET f == qs[1].st[1].f[1]
  IN \A j \in Insts :
       its[j].live =>
         /\ ~its[j].panic
         /\ ~its[j].done =>
              /\ its[j].it.i = Needed(f, Len(its[j].out))
              /\ Calls(j) >= 1 =>
                   its[j].ev = Fetching(f, Needed(f, Len(its[j].out) - 1),
                                        Needed(f, Len(its[j].out)))
         /\ its[j].done =>
              /\ its[j].it.i = Len(a)
              /\ its[j].past = 1 =>
                   its[j].ev = Append(Fetching(f, Needed(f, Len(its[j].out)), Len(a)),
                                      Pulled("a", Len(a)))
              /\ its[j].past > 1 => its[j].ev = <<Pulled("a", Len(a))>>

\* The last call returned the last element of the expansion of the first
\* element, and the second element has not been pulled.
C26_Witness ==
  /\ qs[1].st[1].f[1] = "duplicate"
  /\ Len(a) >= 2
  /\ its[1].live /\ ~its[1].done
  /\ Len(its[1].out) = 2
  /\ its[1].it.i = 1
  /\ its[1].ev = <<>>

(***************************************************************************)
(* Iterators of a Where: its[1] and its[2] are assigned                    *)
(* From(a).Where(f...).Iterate() and called in any interleaving.           *)
(***************************************************************************)
InitWhereIter ==
  /\ a \in ChainSlices
  /\ b = <<>>
  /\ \E f \in PredLists : qs = <<Where(From("a"), f)>>
  /\ its = NoIters
  /\ res = [k \in DOMAIN qs |-> NoResult]

SpecWhereIter == InitWhereIter /\ [][Traverse]_vars

\* The position in a of its n-th element that satisfies f; 0 for n = 0.
PassingAt(f, n) ==
  IF n <= 0 \/ n > Len(SelectSeq(a, LAMBDA e : Passes(f, e))) THEN 0
  ELSE CHOOSE m \in DOMAIN a :
         /\ Passes(f, a[m])
         /\ Cardinality({l \in 1..m : Passes(f, a[l])}) = n

\* Visiting the element e: the predicates in list order, each once, up to
\* and including the first that returns false.
Asking(f, e) == [k \in 1..Tested(f, e) |-> Call(f[k], <<e>>)]

\* Pulling the elements p+1 .. q of a and visiting each.
RECURSIVE Visiting(_, _, _)
Visiting(f, p, q) ==
  IF q <= p THEN <<>>
  ELSE Visiting(f, p, q - 1) \o <<Pulled("a", q - 1)>> \o Asking(f, a[q])

\* C27: a call of a Where iterator that returns an element has pulled the
\* upstream elements after the previously returned one up to the first that
\* passes, and no further; for each of them the predicates were invoked in
\* list order, each once, none after the first that returned false; the call
\* that finds the end has visited the remaining elements in the same way.
C27_WhereOnDemand ==
  LET f == qs[1].st[1].f
  IN \A j \in Insts :
       its[j].live =>
         /\ ~its[j].panic
         /\ IsPrefix(its[j].out, SelectSeq(a, LAMBDA e : Passes(f, e)))
         /\ (Calls(j) >= 1 /\ ~its[j].done) =>
              its[j].ev = Visiting(f, PassingAt(f, Len(its[j].out) - 1),
                                   PassingAt(f, Len(its[j].out)))
         /\ (its[j].done /\ its[j].past = 1) =>
              its[j].ev = Append(Visiting(f, PassingAt(f, Len(its[j].out)), Len(a)),
                                 Pulled("a", Len(a)))
         /\ Calls(j) = 0 => its[j].ev = <<>>

\* With two predicates, the last call passed over an element that the first
\* predicate accepts and the second rejects, and returned the next one; a
\* further element has not been visited.
C27_Witness ==
  /\ Len(qs[1].st[1].f) = 2
  /\ Len(a) = 3
  /\ its[1].live /\ ~its[1].done
  /\ its[1].out = <<a[2]>>
  /\ Len(CallsIn(its[1].ev)) = 4
  /\ Len(PullsIn(its[1].ev)) = 2

(***************************************************************************)
(* More about SpecEvery: what Every pulls.                                 *)
(***************************************************************************)
\* C28: whatever the predicates return, Every pulls the sequence up to
\* exhaustion: its pulls are those of a full traversal, each element of a
\* once and in order, then the pull that finds the end.
C28_EveryScansAll ==
  res[1].op = "Every" =>
    /\ ~res[1].panic
    /\ PullsIn(res[1].ev) = [m \in 1..(Len(a) + 1) |-> Pulled("a", m - 1)]
    /\ PullsIn(res[1].ev) = PullsIn(ToSlice(qs[1], <<>>).ev)

\* The first of three elements fails and all of a is pulled.
C28_Witness ==
  /\ res[1].op = "Every"
  /\ res[1].val = FALSE
  /\ Len(a) = 3
  /\ Len(Stream) >= 3
  /\ ~Passes(res[1].arg, Stream[1])
  /\ Len(PullsIn(res[1].ev)) = 4

(***************************************************************************)
(* sorter.Less alone: s := sorter{t: a, less: f} for every slice a of two  *)
(* elements and every non-empty chain f, and one call s.Less(0, 1).        *)
(***************************************************************************)
Pairs == {s \in Slices : Len(s) = 2}

Chains == CmpLists \ {<<>>}

InitLess ==
  /\ a \in Pairs
  /\ b = <<>>
  /\ qs = <<From("a")>>
  /\ its = NoIters
  /\ res = [k \in DOMAIN qs |-> NoResult]

CallLess(f) == Finish(1, Called("Less", f, Less(f, 1, a[1], a[2], <<>>)))

Compare == \E f \in Chains : CallLess(f)

SpecLess == InitLess /\ [][Compare]_vars

\* The first of all but the last less functions of f that orders x and y, one
\* way or the other; 0 if none does.
Decider(f, x, y) ==
  IF \E i \in 1..(Len(f) - 1) : ApplyCmp(f[i], x, y) \/ ApplyCmp(f[i], y, x)
  THEN CHOOSE i \in 1..(Len(f) - 1) :
         /\ ApplyCmp(f[i], x, y) \/ ApplyCmp(f[i], y, x)
         /\ \A l \in 1..(i - 1) : ~ApplyCmp(f[l], x, y) /\ ~ApplyCmp(f[l], y, x)
  ELSE 0

\* Asking the less functions 1 .. n of f about x and y in both directions.
BothWays(f, n, x, y) ==
  [m \in 1..(2 * n) |->
     IF m % 2 = 1 THEN Call(f[(m + 1) \div 2], <<x, y>>)
     ELSE Call(f[m \div 2], <<y, x>>)]

\* C29: with d the first of c1..c(k-1) that orders the pair, Less(a, b) is
\* true if cd(a, b), false if only cd(b, a), and ck(a, b) if there is no such
\* d; the less functions before d are asked in both directions, and the last
\* one is asked only when there is no d, and only about (a, b).
C29_LessChain ==
  LET f == res[1].arg
      x == a[1]
      y == a[2]
      d == Decider(res[1].arg, a[1], a[2])
  IN res[1].op = "Less" =>
       /\ ~res[1].panic
       /\ (d > 0 /\ ApplyCmp(f[d], x, y)) =>
            /\ res[1].val = TRUE
            /\ res[1].ev = Append(BothWays(f, d - 1, x, y), Call(f[d], <<x, y>>))
       /\ (d > 0 /\ ~ApplyCmp(f[d], x, y)) =>
            /\ res[1].val = FALSE
            /\ res[1].ev = BothWays(f, d, x, y)
       /\ d = 0 =>
            /\ res[1].val = ApplyCmp(f[Len(f)], x, y)
            /\ res[1].ev = Append(BothWays(f, Len(f) - 1, x, y),
                                  Call(f[Len(f)], <<x, y>>))

\* The first less function leaves the pair undecided and the last one,
\* asked once, says no although it would say yes the other way round.
C29_Witness ==
  /\ res[1].op = "Less"
  /\ res[1].arg = <<"lessMod2", "less">>
  /\ a = <<2, 0>>
  /\ res[1].val = FALSE
  /\ Len(res[1].ev) = 3

(***************************************************************************)
(* One stage over a slice: From(a).Take(n), From(a).Skip(n) or             *)
(* From(a).MapTo(f), materialised by ToSlice and traversed call by call by *)
(* two iterators.                                                          *)
(***************************************************************************)
Single ==
  {Take(From("a"), n) : n \in Counts} \cup {Skip(From("a"), n) : n \in Counts}
    \cup {MapTo(From("a"), f) : f \in Mappers}

InitDemand ==
  /\ a \in ChainSlices
  /\ b = <<>>
  /\ \E q \in Single : qs = <<q>>
  /\ its = NoIters
  /\ res = [k \in DOMAIN qs |-> NoResult]

Demand == Terminal \/ Traverse

SpecDemand == InitDemand /\ [][Demand]_vars

\* C30: over one traversal Take(n) pulls at most max(n, 0) elements from
\* upstream, at most one per call and none in a call made once n elements
\* were delivered; every call of a MapTo iterator pulls upstream exactly
\* once; Skip with a negative n pulls nothing; and Iterate() itself pulls
\* nothing.
C30_NoExtraPulls ==
  LET st == qs[1].st[1]
      most == IF st.n > 0 THEN st.n ELSE 0
  IN /\ res[1].op = "ToSlice" =>
          /\ st.op = "take" => Len(PullsIn(res[1].ev)) <= most
          /\ st.op = "mapTo" => Len(PullsIn(res[1].ev)) = Len(res[1].val) + 1
          /\ (st.op = "skip" /\ st.n < 0) => PullsIn(res[1].ev) = <<>>
     /\ \A j \in Insts :
          its[j].live =>
            /\ Calls(j) = 0 => PullsIn(its[j].ev) = <<>>
            /\ (Calls(j) > 0 /\ st.op = "take") =>
                 /\ Len(PullsIn(its[j].ev)) <= 1
                 /\ Calls(j) > most => PullsIn(its[j].ev) = <<>>
            /\ (Calls(j) > 0 /\ st.op = "mapTo") => Len(PullsIn(its[j].ev)) = 1
            /\ (st.op = "skip" /\ st.n < 0) => PullsIn(its[j].ev) = <<>>

\* Take(2) of three elements: ToSlice pulled twice, and the third call of an
\* iterator, made after two elements were delivered, pulled nothing.
C30_Witness ==
  /\ qs[1] = Take(From("a"), 2)
  /\ Len(a) = 3
  /\ res[1].op = "ToSlice"
  /\ Len(PullsIn(res[1].ev)) = 2
  /\ its[1].live
  /\ Len(its[1].out) = 2
  /\ its[1].done
  /\ its[1].ev = <<>>
  /\ its[2].live
  /\ Len(PullsIn(its[2].ev)) = 1

(***************************************************************************)
(* The arrays behind the slices.  b is the copy the caller made of a       *)
(* before passing a to From; a call that iterates a query leaves in a what *)
(* its writes leave there.  The only writes of the package are the appends *)
(* of ToSlice, into the array it allocated, and the swaps of sort.Stable,  *)
(* into the array of the slice sortBy got from ToSlice; the caller writes  *)
(* into the slice ToSlice returned.                                        *)
(***************************************************************************)
\* A faulty variant of Allocated: ToSlice(From(a)) returns a itself.
AllocatedShared(q) == IF q.st = <<>> THEN q.src ELSE "new"

\* ToSlice: a := []interface{}{}; a = append(a, elem): the array of the
\* returned slice is allocated by the call.
Allocated(q) == "new"

Prefix(q, k) == [q EXCEPT !.st = SubSeq(@, 1, k)]

\* The Sort stages of q whose buffer, a := ToSlice(q), is the array of the source.
InPlace(q) ==
  {k \in DOMAIN q.st : q.st[k].op = "sort" /\ Allocated(Prefix(q, k - 1)) = q.src}

\* The source of q after q.Iterate() returned c: by(f).Sort(a) has sorted the
\* buffer of every Sort stage.
Stored(q, c) ==
  IF InPlace(q) = {} \/ c.panic THEN Mem(q.src)
  ELSE c.it.s[CHOOSE k \in InPlace(q) : \A l \in InPlace(q) : k <= l].a

\* What the caller writes into a slice it got: no element of a source.
Mark == MaxElem + 1

InitFrame ==
  /\ a \in ChainSlices
  /\ b = a
  /\ qs = <<From("a"), From("a")>>
  /\ its = NoIters
  /\ res = [k \in DOMAIN qs |-> NoResult]

\* q := From(a).Op(...), before anything is called on From(a).
Wrap ==
  /\ qs[1].st = <<>>
  /\ \A j \in Insts : ~its[j].live
  /\ \A k \in DOMAIN res : res[k].op = "none"
  /\ \E q \in Menu(qs[1]) : qs' = <<q, q>>
  /\ UNCHANGED <<a, b, its, res>>

\* its[j] = q.Iterate()
Iterating(j) ==
  /\ ~Panicked
  /\ its' = [its EXCEPT ![j] = Created(1, Iterate(qs[1], <<>>))]
  /\ a' = Stored(qs[1], Iterate(qs[1], <<>>))
  /\ UNCHANGED <<b, qs, res>>

\* res[k] = ToSlice(q); the second one is called after the caller wrote into
\* the first.
Slicing(k) ==
  /\ ~Panicked
  /\ res[k].op = "none"
  /\ k = 2 => res[1].op = "written"
  /\ res' = [res EXCEPT ![k] = Called("ToSlice", Allocated(qs[k]), ToSlice(qs[k], <<>>))]
  /\ a' = Stored(qs[k], Iterate(qs[k], <<>>))
  /\ UNCHANGED <<b, qs, its>>

\* res[2] = q.Last()
Peeking ==
  /\ ~Panicked
  /\ res[2].op = "none"
  /\ res' = [res EXCEPT ![2] = Called("Last", <<>>, Last(qs[2], <<>>))]
  /\ a' = Stored(qs[2], Iterate(qs[2], <<>>))
  /\ UNCHANGED <<b, qs, its>>

\* for i := range res[1] { res[1][i] = Mark }, by the caller, one write at a time
Overwrite(i) ==
  /\ res[1].op \in {"ToSlice", "written"}
  /\ i \in DOMAIN res[1].val
  /\ res[1].val[i] # Mark
  /\ \A l \in 1..(i - 1) : res[1].val[l] = Mark
  /\ res' = [res EXCEPT ![1].val[i] = Mark, ![1].op = "written"]
  /\ a' = IF res[1].arg = "a" THEN [a EXCEPT ![i] = Mark] ELSE a
  /\ UNCHANGED <<b, qs, its>>

Frame ==
  \/ Wrap
  \/ \E j \in Insts : Iterating(j) \/ Pull(j)
  \/ \E k \in DOMAIN qs : Slicing(k)
  \/ Peeking
  \/ \E i \in 1..(2 * MaxSrc) : Overwrite(i)

SpecFrame == InitFrame /\ [][Frame]_vars

\* The query q over the caller's copy b.
OverCopy(q) ==
  [src |-> "b", st |-> [k \in DOMAIN q.st |-> [q.st[k] EXCEPT !.inner.src = "b"]]]

RECURSIVE BeforeCall(_)
BeforeCall(ev) ==
  IF ev = <<>> \/ Head(ev)[1] = "call" THEN <<>>
  ELSE <<Head(ev)>> \o BeforeCall(Tail(ev))

\* The outcome r of an operation, had its callbacks been nil (absent).
Absent(absent, r) ==
  IF absent /\ ~r.panic /\ CallsIn(r.ev) # <<>>
  THEN V(Nil, BeforeCall(r.ev), TRUE)
  ELSE V(r.val, r.ev, r.panic)

Inners == {s \in ChainSlices : Len(s) <= 1}

InitEmpty ==
  /\ a \in ChainSlices
  /\ b \in Inners
  /\ qs = <<From("a")>>
  /\ its = NoIters
  /\ res = [k \in DOMAIN qs |-> NoResult]

\* What the program did: op(f) with f absent or not, and its outcome r.
Did(op, absent, f, r) == Finish(1, Called(op, <<absent, f>>, Absent(absent, r)))

WithCallbacks(absent) ==
  \/ \E f \in PredLists : Did("Where", absent, f, ToSlice(Where(qs[1], f), <<>>))
  \/ \E f \in PredLists : Did("Any", absent, f, AnyOf(qs[1], f, <<>>))
  \/ \E f \in PredLists : Did("Every", absent, f, Every(qs[1], f, <<>>))
  \/ \E f \in Mappers : Did("MapTo", absent, f, ToSlice(MapTo(qs[1], f), <<>>))
  \/ \E f \in Expanders : Did("Expand", absent, f, ToSlice(Expand(qs[1], f), <<>>))
  \/ \E f \in Combs : Did("Fold", absent, f, Fold(qs[1], 0, f, <<>>))
  \/ \E f \in Combs : Did("Reduce", absent, f, Reduce(qs[1], f, <<>>))
  \/ \E f \in Visitors : Did("ForEach", absent, f, ForEach(qs[1], f, <<>>))
  \/ \E f \in KeySels, g \in ResultSels :
       Did("Join", absent, <<f, g>>, ToSlice(Join(qs[1], From("b"), f, f, g), <<>>))
  \/ \E f \in SortChains \cup {<<>>} : Did("Sort", absent, f, ToSlice(Sort(qs[1], f), <<>>))

Operate == \E absent \in BOOLEAN : WithCallbacks(absent)

SpecEmpty == InitEmpty /\ [][Operate]_vars

\* C32: on an empty source Where, Any, Every, MapTo, Expand, Fold, Reduce and
\* ForEach, and Join with an empty inner too, invoke no callback and return
\* normally, with nil callbacks as with others; Sort of fewer than two
\* elements invokes no comparator and returns normally.
C32_NoCallOnEmpty ==
  LET quiet == CallsIn(res[1].ev) = <<>> /\ ~res[1].panic
  IN /\ (a = <<>> /\ res[1].op \in {"Where", "Any", "Every", "MapTo", "Expand",
                                    "Fold", "Reduce", "ForEach"}) => quiet
     /\ (a = <<>> /\ b = <<>> /\ res[1].op = "Join") => quiet
     /\ (Len(a) < 2 /\ res[1].op = "Sort") => quiet

\* Join of two empty slices with nil selectors returned the empty list.
C32_Witness ==
  /\ a = <<>>
  /\ b = <<>>
  /\ res[1].op = "Join"
  /\ res[1].arg[1] = TRUE
  /\ res[1].val = <<>>
  /\ ~res[1].panic

(***************************************************************************)
(* Iterators called again after they reported exhaustion: two iterators of *)
(* a chain of one or two stages, each called up to MaxPast + 2 times past  *)
(* its end; or one At(i) instead.                                          *)
(***************************************************************************)
Deep == Shapes \cup Menu(Skip(From("a"), 1)) \cup Menu(Take(From("a"), 2))

InitAgain ==
  /\ a \in ChainSlices
  /\ b = <<>>
  /\ \E q \in Deep : qs = <<q>>
  /\ its = NoIters
  /\ res = [k \in DOMAIN qs |-> NoResult]

\* elem, ok := its[j](), after a call that returned ok = false
Repull(j) ==
  /\ ~Panicked
  /\ its[j].live
  /\ its[j].done
  /\ its[j].past < MaxPast + 2
  /\ its' = Received(j, Pulling(its[j].it, <<>>))
  /\ UNCHANGED <<a, b, qs, res>>

Beyond ==
  /\ \A j \in Insts : ~its[j].live
  /\ \E i \in Indexes : CallAt(1, i)

Again ==
  \/ res[1].op = "none" /\ Traverse
  \/ res[1].op = "none" /\ \E j \in Insts : Repull(j)
  \/ Beyond

SpecAgain == InitAgain /\ [][Again]_vars

\* C33: an iterator that has returned ok = false returns ok = false and the
\* nil element at every later call, and a call made after that invokes no
\* callback; At(i) with i at or beyond the length, which makes such calls,
\* returns nil.
C33_ExhaustedForGood ==
  /\ \A j \in Insts :
       (its[j].live /\ its[j].past >= 1) =>
         /\ its[j].done
         /\ its[j].elem = Nil
         /\ ~its[j].panic
         /\ its[j].past >= 2 => CallsIn(its[j].ev) = <<>>
  /\ (res[1].op = "At" /\ res[1].arg[1] >= Len(Stream)) =>
       res[1].val = Nil /\ ~res[1].panic

\* Skip(1).Where(positive) over three elements was called three times past its
\* end, and the other iterator, created meanwhile, has its first element.
C33_Witness ==
  /\ qs[1] = Where(Skip(From("a"), 1), <<"positive">>)
  /\ a = <<1, 2, 0>>
  /\ its[1].live /\ its[1].past = 3 /\ its[1].out = <<2>>
  /\ its[2].live /\ its[2].out = <<2>> /\ its[2].past = 0

(***************************************************************************)
(* The loops of expand and join, one pass at a time.  A pass either        *)
(* returns from the closure (back = FALSE, r the returned elem, ok) or     *)
(* goes back to the head of the loop (back = TRUE, r.it the closure's      *)
(* variables then).                                                        *)
(***************************************************************************)
Back(back, r) == [back |-> back, r |-> r]

\* expand: if s.i < s.len { elem = s.inner[s.i]; s.i++; return elem, true }
expandTry(it, k, ev) ==
  IF it.s[k].i < it.s[k].len
  THEN Back(FALSE, R(it.s[k].inner[it.s[k].i + 1], TRUE, [it EXCEPT !.s[k].i = @ + 1],
                     ev, FALSE))
  ELSE Back(TRUE, R(Nil, FALSE, it, ev, FALSE))

\* A faulty variant of expandFetched: an element whose expansion is empty is
\* not consumed: the source is asked for it again.
expandFetchedStuck(r, k, f) ==
  IF r.panic \/ ~r.ok
  THEN Back(FALSE, R(Nil, FALSE, [r.it EXCEPT !.s[k].outer = r.elem], r.ev, r.panic))
  ELSE IF ApplyExpand(f, r.elem) = <<>>
       THEN Back(TRUE, R(Nil, FALSE, [r.it EXCEPT !.i = @ - 1], r.ev, FALSE))
       ELSE expandTry([r.it EXCEPT !.s[k].outer = r.elem,
                                   !.s[k].inner = ApplyExpand(f, r.elem),
                                   !.s[k].len = Len(ApplyExpand(f, r.elem)),
                                   !.s[k].i = 0],
                      k, Append(r.ev, Call(f, <<r.elem>>)))

\* expand: s.outer, ok = next(); if !ok { return }; s.inner = f(s.outer);
\* s.len = len(s.inner); s.i = 0
expandFetched(r, k, f) ==
  IF r.panic \/ ~r.ok
  THEN Back(FALSE, R(Nil, FALSE, [r.it EXCEPT !.s[k].outer = r.elem], r.ev, r.panic))
  ELSE expandTry([r.it EXCEPT !.s[k].outer = r.elem,
                              !.s[k].inner = ApplyExpand(f, r.elem),
                              !.s[k].len = Len(ApplyExpand(f, r.elem)),
                              !.s[k].i = 0],
                 k, Append(r.ev, Call(f, <<r.elem>>)))

\* expand: one pass of for { ... }
expandPass(it, k, ev) ==
  IF it.s[k].i >= it.s[k].len
  THEN expandFetched(NextAt(it, k - 1, ev), k, it.q.st[k].f[1])
  ELSE expandTry(it, k, ev)

\* join: s.inner, has = lut[outKeySel(s.outer)]; s.len = len(s.inner); s.i = 0,
\* and, with has, the end of the loop and the return
joinFound(it, k, key, ev) ==
  IF key \in DOMAIN it.s[k].lut
  THEN Back(FALSE, joinEmit([it EXCEPT !.s[k].inner = it.s[k].lut[key],
                                       !.s[k].len = Len(it.s[k].lut[key]),
                                       !.s[k].i = 0], k, ev))
  ELSE Back(TRUE, R(Nil, FALSE,
                    [it EXCEPT !.s[k].inner = <<>>, !.s[k].len = 0, !.s[k].i = 0],
                    ev, FALSE))

\* join: s.outer, ok = next(); if !ok { return }
joinFetched(r, k, outKeySel) ==
  IF r.panic \/ ~r.ok
  THEN Back(FALSE, R(Nil, FALSE, [r.it EXCEPT !.s[k].outer = r.elem], r.ev, r.panic))
  ELSE joinFound([r.it EXCEPT !.s[k].outer = r.elem], k, ApplyKey(outKeySel, r.elem),
                 Append(r.ev, Call(outKeySel, <<r.elem>>)))

\* join: one pass of for !has { ... }, or the return without it
joinPass(it, k, ev) ==
  IF it.s[k].i >= it.s[k].len
  THEN joinFetched(NextAt(it, k - 1, ev), k, it.q.st[k].f[1])
  ELSE Back(FALSE, joinEmit(it, k, ev))

\* One pass of the loop of the last stage of it.q.
PassOf(it) ==
  IF it.q.st[Len(it.q.st)].op = "expand"
  THEN expandPass(it, Len(it.q.st), <<>>)
  ELSE joinPass(it, Len(it.q.st), <<>>)

(***************************************************************************)
(* ToSlice(q), q ending in an Expand or a Join, run pass by pass:          *)
(* res[1].op is "none" before the call, "loop" while a call of next() is   *)
(* in its loop, "got" when that call has returned, and "ToSlice" once      *)
(* ToSlice returned.                                                       *)
(***************************************************************************)
Loops ==
  {Expand(q, f) : q \in {From("a"), Skip(From("a"), 1)}, f \in Expanders}
    \cup {Join(q, From("b"), f, f, "pair") :
            q \in {From("a"), Where(From("a"), <<"positive">>)}, f \in KeySels}

InitLoop ==
  /\ a \in ChainSlices
  /\ b \in Inners
  /\ \E q \in Loops : qs = <<q>> /\ (q.st[Len(q.st)].op = "expand" => b = <<>>)
  /\ its = NoIters
  /\ res = [k \in DOMAIN qs |-> NoResult]

\* ToSlice: next := q.Iterate(), and the first next()
Begin ==
  /\ res[1].op = "none"
  /\ its' = [its EXCEPT ![1] = Created(1, Iterate(qs[1], <<>>))]
  /\ res' = [res EXCEPT ![1].op = "loop"]
  /\ UNCHANGED <<a, b, qs>>

\* The pass p went back to the head of the loop, or returned to ToSlice.
Passed(p) ==
  /\ its' = IF p.back THEN store(1, p.r.it) ELSE Received(1, p.r)
  /\ res' = IF p.back THEN res ELSE [res EXCEPT ![1].op = "got"]
  /\ UNCHANGED <<a, b, qs>>

Pass ==
  /\ res[1].op = "loop"
  /\ Passed(PassOf(its[1].it))

\* ToSlice: with ok, a = append(a, elem) and the next next(); without, return a
Got ==
  /\ res[1].op = "got"
  /\ res' = IF its[1].done
            THEN [res EXCEPT ![1].op = "ToSlice", ![1].val = its[1].out]
            ELSE [res EXCEPT ![1].op = "loop"]
  /\ UNCHANGED <<a, b, qs, its>>

Loop == Begin \/ Pass \/ Got

\* The calling goroutine keeps running.
SpecLoop == InitLoop /\ [][Loop]_vars /\ WF_vars(Loop)

\* C34: every call of next() on an Expand or a Join iterator over finite
\* slices returns, whatever f returns and whether or not outer elements
\* match; and ToSlice returns.
C34_PullsReturn ==
  /\ (res[1].op = "loop") ~> (res[1].op = "got")
  /\ <>(res[1].op = "ToSlice")

\* In the loop of Expand(null) with two elements consumed and none returned:
\* f returned the empty list each time.
C34_Witness ==
  /\ qs[1] = Expand(From("a"), "null")
  /\ Len(a) = 3
  /\ res[1].op = "loop"
  /\ its[1].it.i = 2
  /\ Calls(1) = 0

\* What Every asks: about the elements of s from the n-th on, in order, the
\* predicates up to the first that returns false, and nothing after that one.
RECURSIVE AskedFrom(_, _, _)
AskedFrom(f, s, n) ==
  IF n > Len(s) THEN <<>>
  ELSE Asking(f, s[n]) \o (IF Passes(f, s[n]) THEN AskedFrom(f, s, n + 1) ELSE <<>>)

NoWhere(q) == \A k \in DOMAIN q.st : q.st[k].op # "where"

\* C35: once a predicate has returned false Every invokes no predicate any
\* more, neither the remaining ones for that element nor any for a later
\* element: its invocations are those up to that one; the remaining elements
\* are pulled all the same.
C35_EveryAsksNoMore ==
  LET f == res[1].arg
      through == ToSlice(qs[1], <<>>)
  IN res[1].op = "Every" =>
       /\ ~res[1].panic
       /\ Len(CallsIn(res[1].ev)) =
            Len(CallsIn(through.ev)) + Len(AskedFrom(f, through.val, 1))
       /\ NoWhere(qs[1]) =>
            SelectSeq(res[1].ev,
                      LAMBDA e : e[1] = "call" /\ \E k \in DOMAIN f : e[2] = f[k])
              = AskedFrom(f, through.val, 1)
       /\ PullsIn(res[1].ev) = PullsIn(through.ev)

\* Of three elements the first fails the first of two predicates: one
\* invocation, and four pulls.
C35_Witness ==
  /\ res[1].op = "Every"
  /\ qs[1] = From("a")
  /\ Len(a) = 3
  /\ Len(res[1].arg) = 2
  /\ ~ApplyPred(res[1].arg[1], a[1])
  /\ Passes(res[1].arg, a[3])
  /\ Len(CallsIn(res[1].ev)) = 1
  /\ Len(PullsIn(res[1].ev)) = 4

(***************************************************************************)
(* The terminal operators that stop early, each called once on From(a), on *)
(* From(a).MapTo(inc), whose iterator pulls the source once per call, and  *)
(* on From(a).Sort(less), whose Iterate() drains the source.               *)
(***************************************************************************)
Plain == {From("a"), MapTo(From("a"), "inc"), Sort(From("a"), <<"less">>)}

Probe ==
  \/ CallIsEmpty(1)
  \/ CallFirst(1)
  \/ \E i \in Indexes : CallAt(1, i)
  \/ \E e \in Wanted : CallContains(1, e)
  \/ \E f \in {g \in PredLists : Len(g) <= 1} : CallAny(1, f)

SpecProbe == InitOver(Plain) /\ [][Probe]_vars

\* The first n calls of one iterator of From(a), as the source logs them:
\* every call after the end is one more look at index len(a).
CallsOfOne(n) == [m \in 1..n |-> Pulled("a", Min(m - 1, Len(a)))]

\* The position of the first element of s equal to e; one past the end if
\* there is none.
FirstEqual(s, e) ==
  IF \E m \in DOMAIN s : s[m] = e
  THEN CHOOSE m \in DOMAIN s : s[m] = e /\ \A n \in 1..(m - 1) : s[n] # e
  ELSE Len(s) + 1

\* C36: on one fresh iterator, IsEmpty and First call next() once, At(i) with
\* i >= 0 calls it i + 1 times, past the end too, Contains calls it up to the
\* first equal element, and Any with no predicate once, returning whether
\* there is an element; At with a negative i calls not even Iterate(); each
\* of the others calls Iterate() once.
C36_FixedPulls ==
  LET pulls == PullsIn(res[1].ev)
      s == Stream
      lazy == qs[1].st = <<>> \/ qs[1].st[1].op = "mapTo"
  IN /\ res[1].op # "none" => ~res[1].panic
     /\ (res[1].op = "At" /\ res[1].arg[1] < 0) => res[1].ev = <<>>
     /\ (res[1].op \in {"IsEmpty", "First"} /\ lazy) => pulls = CallsOfOne(1)
     /\ (res[1].op = "At" /\ res[1].arg[1] >= 0 /\ lazy) =>
          pulls = CallsOfOne(res[1].arg[1] + 1)
     /\ (res[1].op = "Contains" /\ lazy) =>
          pulls = CallsOfOne(FirstEqual(s, res[1].arg[1]))
     /\ (res[1].op = "Any" /\ res[1].arg = <<>>) =>
          /\ res[1].val = (s # <<>>)
          /\ lazy => pulls = CallsOfOne(1)
     /\ (~lazy /\ res[1].op # "none" /\ ~(res[1].op = "At" /\ res[1].arg[1] < 0)) =>
          pulls = CallsOfOne(Len(a) + 1)

\* At(4) on two mapped elements: five calls, three of them past the end.
C36_Witness ==
  /\ res[1].op = "At"
  /\ res[1].arg = <<4>>
  /\ qs[1] = MapTo(From("a"), "inc")
  /\ Len(a) = 2
  /\ Len(PullsIn(res[1].ev)) = 5
  /\ res[1].val = Nil

(***************************************************************************)
(* Sort and Where in both orders: From(a).Sort(c...).Where(p...) and       *)
(* From(a).Where(p...).Sort(c...), each materialised once.                 *)
(***************************************************************************)
Orders ==
  {<<"less">>, <<"greater">>, <<"lessMod2">>, <<"never">>, <<"lessMod2", "greater">>,
   <<"never", "less">>, <<"lessEq">>, <<>>}

Filters ==
  {<<>>, <<"even">>, <<"positive">>, <<"even", "positive">>, <<"truthFalse">>}

InitCommute ==
  /\ a \in Slices
  /\ b = <<>>
  /\ \E c \in Orders, p \in Filters :
       qs = <<Where(Sort(From("a"), c), p), Sort(Where(From("a"), p), c)>>
  /\ its = NoIters
  /\ res = [k \in DOMAIN qs |-> NoResult]

SpecCommute == InitCommute /\ [][Terminal]_vars

\* The composite relation of the chain f is a strict weak ordering.
StrictWeakChain(f) ==
  /\ \A x \in Elems : ~CompositeLess(f, x, x)
  /\ \A x, y, z \in Elems :
       CompositeLess(f, x, y) /\ CompositeLess(f, y, z) => CompositeLess(f, x, z)
  /\ \A x, y, z \in Elems :
       /\ ~CompositeLess(f, x, y) /\ ~CompositeLess(f, y, x)
       /\ ~CompositeLess(f, y, z) /\ ~CompositeLess(f, z, y)
       => ~CompositeLess(f, x, z) /\ ~CompositeLess(f, z, x)

\* C37: with a chain of one or more less functions forming a strict weak
\* ordering, sorting and then filtering yields the sequence that filtering
\* and then sorting yields.
C37_WhereSortCommute ==
  (/\ res[1].op = "ToSlice" /\ res[2].op = "ToSlice"
   /\ qs[2].st[2].f # <<>>
   /\ StrictWeakChain(qs[2].st[2].f)) =>
    /\ ~res[1].panic /\ ~res[2].panic
    /\ res[1].val = res[2].val

\* Odd before even, each group descending, positive elements only: elements
\* are moved and one is dropped, in both orders.
C37_Witness ==
  /\ a = <<0, 1, 2>>
  /\ qs[2].st[2].f = <<"lessMod2", "greater">>
  /\ qs[2].st[1].f = <<"positive">>
  /\ res[1].op = "ToSlice" /\ res[2].op = "ToSlice"
  /\ res[1].val = <<2, 1>>
  /\ res[2].val = <<2, 1>>

====
